---- MODULE Spec2Model ----
(***************************************************************************)
(* The websearch tool with Exa -> Tavily fallback                          *)
(* (extensions/websearch): the cancellation composer combineSignals, the   *)
(* provider adapters searchExa / searchTavily, the orchestrator            *)
(* callProvider / execute and the output bounding that ends every call.    *)
(* With it the websearch_fallback tool (extensions/websearch-fallback.ts), *)
(* and the decoders and the bounding applied on their own to every small   *)
(* input (SpecDecode, SpecBound).                                          *)
(*                                                                         *)
(* Text is a sequence of one-character strings ("\n" is the line break);   *)
(* the fixed parts of a template literal are one element each.  A response *)
(* body is a sequence of lines, a line being a record that says whether it *)
(* starts with "data: " and what follows the prefix.                       *)
(*                                                                         *)
(* One step of the model is one turn of the event loop: a promise settles  *)
(* and the code after the await runs to the next await.                    *)
(***************************************************************************)
EXTENDS Integers, Sequences, FiniteSets, TLC

VARIABLES
    inv,            \* per invocation of execute: its position and locals
    att,            \* per provider attempt: the request and its cancellation context
    timers,         \* the event loop's pending timers: context -> remaining ms
    listeners,      \* "abort" listeners registered on the caller's signal
    callerAborted,  \* signal.aborted of the caller's (shared) AbortSignal
    tavilyKey,      \* process.env.TAVILY_API_KEY is set
    files,          \* files written under os.tmpdir()/pi-tool-output
    fb,             \* the call of websearch_fallback: its position, its context
    call            \* a function applied on its own: its input and its result

vars == <<inv, att, timers, listeners, callerAborted, tavilyKey, files, fb, call>>

----------------------------------------------------------------------------
(* Sizes of the model *)

\* The call slots of the tool: execute is called again and again, each call
\* with the same long-lived caller signal (or none); a slot is free again
\* once its call has returned or thrown.
Invocations == {1}

\* Overflow files the temp directory holds before the model stops writing.
MaxFiles == 2

\* Milliseconds the clock advances in one Tick.
TickMs == 12500

Providers == {"exa", "tavily"}
CtxIds == Invocations \X Providers
\* the cancellation context of the websearch_fallback call
FbCtx == <<1, "fallback">>

----------------------------------------------------------------------------
(* Program constants *)

REQUEST_TIMEOUT_MS == 25000
DEFAULT_MAX_RESULTS == 10
\* webfetch; 5 * 1024 * 1024
MAX_RESPONSE_SIZE == 5242880
DEFAULT_TIMEOUT_MS == 30000
MAX_TIMEOUT_MS == 120000
MIN_MAX_RESULTS == 5
MAX_MAX_RESULTS == 20

\* The library's limits are 2000 lines and 50KB; the model scales them down
\* so that small texts exceed them.
DEFAULT_MAX_LINES == 3
DEFAULT_MAX_BYTES == 16

\* null / undefined of a string-typed value
Null == <<"<null>">>
NL == "\n"

----------------------------------------------------------------------------
(* Text helpers *)

\* !s  for a string-or-null value
Falsy(s) == s = Null \/ s = <<>>

IsSpace(c) == c = " " \/ c = NL

RECURSIVE TrimStart(_)
TrimStart(s) ==
    IF s # <<>> /\ IsSpace(Head(s)) THEN TrimStart(Tail(s)) ELSE s

RECURSIVE TrimEnd(_)
TrimEnd(s) ==
    IF s # <<>> /\ IsSpace(s[Len(s)]) THEN TrimEnd(SubSeq(s, 1, Len(s) - 1)) ELSE s

\* String.prototype.trim
Trim(s) == TrimEnd(TrimStart(s))

\* UTF-8 size of one element of a text
TokBytes(t) ==
    CASE t = "Title: " -> 7
      [] t = "Url: " -> 5
      [] t = "Content: " -> 9
      [] OTHER -> 1

RECURSIVE ByteLength(_)
ByteLength(s) == IF s = <<>> THEN 0 ELSE TokBytes(Head(s)) + ByteLength(Tail(s))

\* content.split("\n")
RECURSIVE SplitLines(_)
SplitLines(s) ==
    IF \A k \in 1..Len(s) : s[k] # NL THEN <<s>>
    ELSE LET k == CHOOSE j \in 1..Len(s) : s[j] = NL /\ \A m \in 1..(j - 1) : s[m] # NL
         IN <<SubSeq(s, 1, k - 1)>> \o SplitLines(SubSeq(s, k + 1, Len(s)))

\* parts.join(sep)
RECURSIVE Join(_, _)
Join(parts, sep) ==
    IF parts = <<>> THEN <<>>
    ELSE IF Len(parts) = 1 THEN parts[1]
    ELSE parts[1] \o sep \o Join(Tail(parts), sep)

\* sub occurs in s as a contiguous run starting at position k
OccursAt(s, sub, k) ==
    /\ k >= 1
    /\ k + Len(sub) - 1 <= Len(s)
    /\ SubSeq(s, k, k + Len(sub) - 1) = sub

Contains(s, sub) == \E k \in 1..(Len(s) + 1) : OccursAt(s, sub, k)

----------------------------------------------------------------------------
(* Errors *)

NoError == [name |-> "none", message |-> <<>>]

\* new Error(message)
Error(message) == [name |-> "Error", message |-> message]

\* what fetch / response.text() reject with once their signal is aborted
AbortError == [name |-> "AbortError", message |-> <<"This operation was aborted">>]

\* what fetch / response.text() reject with when the connection fails
NetworkError == [name |-> "TypeError", message |-> <<"fetch failed">>]

\* Variant: every error counts as an abort.
isAbortError_AnyError(error) == error.name # ""

isAbortError(error) == error.name = "AbortError"

----------------------------------------------------------------------------
(* Output bounding *)

\* Lines of `lines` from index i on that fit: whole lines only, at most
\* maxLines of them and at most maxBytes bytes (a line after the first
\* costs one more byte, its "\n").
RECURSIVE KeepLines(_, _, _, _, _)
KeepLines(lines, i, bytes, maxLines, maxBytes) ==
    IF i > Len(lines) \/ i > maxLines THEN <<>>
    ELSE LET lineBytes == ByteLength(lines[i]) + (IF i > 1 THEN 1 ELSE 0) IN
         IF bytes + lineBytes > maxBytes THEN <<>>
         ELSE <<lines[i]>> \o KeepLines(lines, i + 1, bytes + lineBytes, maxLines, maxBytes)

truncateHead(content, maxLines, maxBytes) ==
    LET totalBytes == ByteLength(content)
        lines == SplitLines(content)
        totalLines == Len(lines)
    IN  IF totalLines <= maxLines /\ totalBytes <= maxBytes
        THEN [content |-> content, truncated |-> FALSE,
              totalLines |-> totalLines, totalBytes |-> totalBytes,
              outputLines |-> totalLines, outputBytes |-> totalBytes]
        ELSE IF ByteLength(lines[1]) > maxBytes
        THEN [content |-> <<>>, truncated |-> TRUE,
              totalLines |-> totalLines, totalBytes |-> totalBytes,
              outputLines |-> 0, outputBytes |-> 0]
        ELSE LET kept == KeepLines(lines, 1, 0, maxLines, maxBytes)
                 out == Join(kept, <<NL>>)
             IN [content |-> out, truncated |-> TRUE,
                 totalLines |-> totalLines, totalBytes |-> totalBytes,
                 outputLines |-> Len(kept), outputBytes |-> ByteLength(out)]

NoMeta == [outputLines |-> -1, totalLines |-> -1, outputBytes |-> -1, totalBytes |-> -1]

\* Variant: the metadata is attached whether or not the text was truncated.
formatOutput_AlwaysMeta(content) ==
    LET truncation == truncateHead(content, DEFAULT_MAX_LINES, DEFAULT_MAX_BYTES) IN
    [output |-> truncation.content, truncated |-> truncation.truncated,
     meta |-> [outputLines |-> truncation.outputLines,
               totalLines |-> truncation.totalLines,
               outputBytes |-> truncation.outputBytes,
               totalBytes |-> truncation.totalBytes]]

\* Variant: the totals in the metadata are those of the kept text.
formatOutput_TotalsOfKept(content) ==
    LET truncation == truncateHead(content, DEFAULT_MAX_LINES, DEFAULT_MAX_BYTES) IN
    IF ~truncation.truncated
    THEN [output |-> truncation.content, truncated |-> FALSE, meta |-> NoMeta]
    ELSE [output |-> truncation.content, truncated |-> TRUE,
          meta |-> [outputLines |-> truncation.outputLines,
                    totalLines |-> truncation.outputLines,
                    outputBytes |-> truncation.outputBytes,
                    totalBytes |-> truncation.outputBytes]]

\* Variant: a text within the limits is returned with a line break added.
formatOutput_AddsNewline(content) ==
    LET truncation == truncateHead(content, DEFAULT_MAX_LINES, DEFAULT_MAX_BYTES) IN
    IF ~truncation.truncated
    THEN [output |-> truncation.content \o <<NL>>, truncated |-> FALSE, meta |-> NoMeta]
    ELSE [output |-> truncation.content, truncated |-> TRUE,
          meta |-> [outputLines |-> truncation.outputLines,
                    totalLines |-> truncation.totalLines,
                    outputBytes |-> truncation.outputBytes,
                    totalBytes |-> truncation.totalBytes]]

formatOutput(content) ==
    LET truncation == truncateHead(content, DEFAULT_MAX_LINES, DEFAULT_MAX_BYTES) IN
    IF ~truncation.truncated
    THEN [output |-> truncation.content, truncated |-> FALSE, meta |-> NoMeta]
    ELSE [output |-> truncation.content, truncated |-> TRUE,
          meta |-> [outputLines |-> truncation.outputLines,
                    totalLines |-> truncation.totalLines,
                    outputBytes |-> truncation.outputBytes,
                    totalBytes |-> truncation.totalBytes]]

\* formatSize for sizes below 1KB
formatSize(bytes) == <<ToString(bytes), "B">>

getTruncationNotice(meta, fullOutputPath) ==
    <<NL, NL, "[Output truncated: ", ToString(meta.outputLines), " of ",
      ToString(meta.totalLines), " lines (">>
    \o formatSize(meta.outputBytes) \o <<" of ">> \o formatSize(meta.totalBytes)
    \o <<"). Full output saved to: ">> \o fullOutputPath \o <<"]">>

\* The path writeTempOutput builds; n stands for its time and random part.
TempPath(n) == <<"pi-tool-output/websearch-", ToString(n), ".txt">>

----------------------------------------------------------------------------
(* Response bodies and their decoders *)

\* A line that does not start with "data: " (a comment, "event: ...", blank).
OtherLine == [data |-> FALSE, k |-> "empty", has |-> FALSE, text |-> <<>>]
\* "data: " followed by nothing but blanks
DataEmpty == [data |-> TRUE, k |-> "empty", has |-> FALSE, text |-> <<>>]
\* "data: [DONE]"
DataDone == [data |-> TRUE, k |-> "done", has |-> FALSE, text |-> <<>>]
\* "data: " followed by something JSON.parse rejects
DataBad == [data |-> TRUE, k |-> "bad", has |-> FALSE, text |-> <<>>]
\* "data: {...}" without result.content[0].text
DataNoText == [data |-> TRUE, k |-> "json", has |-> FALSE, text |-> <<>>]
\* "data: {"result":{"content":[{"text": t}]}}"
DataText(t) == [data |-> TRUE, k |-> "json", has |-> TRUE, text |-> t]

\* "data: null": JSON.parse succeeds and gives null
DataNull == [data |-> TRUE, k |-> "null", has |-> FALSE, text |-> <<>>]
\* "data: {"result":{"content":[{"text": 5}]}}": a text that is no string
DataNumText == [data |-> TRUE, k |-> "numtext", has |-> TRUE, text |-> <<>>]

\* What a decoder call ends with: the value it returned, or the error that
\* left it (nothing in the decoders catches an error outside JSON.parse).
Returned(value) == [thrown |-> NoError, value |-> value]
Thrown(error) == [thrown |-> error, value |-> <<>>]

\* `data.result` with data = null
NullTypeError ==
    [name |-> "TypeError",
     message |-> <<"Cannot read properties of null (reading 'result')">>]
\* `text.trim()` with a text that has no trim method
TrimTypeError ==
    [name |-> "TypeError", message |-> <<"text.trim is not a function">>]

\* Variant: the scan goes on after a usable line and a later one wins.
RECURSIVE parseExaContent_KeepsScanning(_)
parseExaContent_KeepsScanning(responseText) ==
    IF responseText = <<>> THEN Returned(<<>>)
    ELSE LET line == Head(responseText)
             rest == Tail(responseText)
         IN  IF ~line.data THEN parseExaContent_KeepsScanning(rest)
             ELSE IF line.k = "empty" \/ line.k = "done"
                  THEN parseExaContent_KeepsScanning(rest)
             ELSE IF line.k = "bad" THEN parseExaContent_KeepsScanning(rest)
             ELSE IF line.k = "null" THEN Thrown(NullTypeError)
             ELSE IF line.k = "numtext" THEN Thrown(TrimTypeError)
             ELSE IF line.has /\ ~Falsy(line.text) /\ Len(Trim(line.text)) > 0
                  THEN LET later == parseExaContent_KeepsScanning(rest) IN
                       IF later = Returned(<<>>) THEN Returned(line.text) ELSE later
             ELSE parseExaContent_KeepsScanning(rest)

RECURSIVE parseExaContent(_)
parseExaContent(responseText) ==
    IF responseText = <<>> THEN Returned(<<>>)
    ELSE LET line == Head(responseText)
             rest == Tail(responseText)
         IN  IF ~line.data THEN parseExaContent(rest)
             ELSE IF line.k = "empty" \/ line.k = "done" THEN parseExaContent(rest)
             ELSE IF line.k = "bad" THEN parseExaContent(rest)
             ELSE IF line.k = "null" THEN Thrown(NullTypeError)
             ELSE IF line.k = "numtext" THEN Thrown(TrimTypeError)
             ELSE IF line.has /\ ~Falsy(line.text) /\ Len(Trim(line.text)) > 0
                  THEN Returned(line.text)
             ELSE parseExaContent(rest)

\* The nested text of a Tavily line: what JSON.parse makes of it.
InnerEmpty == [k |-> "empty", arr |-> FALSE, results |-> <<>>]
InnerBad == [k |-> "bad", arr |-> FALSE, results |-> <<>>]
InnerNoResults == [k |-> "obj", arr |-> FALSE, results |-> <<>>]
InnerResults(rs) == [k |-> "obj", arr |-> TRUE, results |-> rs]

\* Variant: a nested text that does not parse ends the scan.
RECURSIVE parseTavilyResults_NestedAborts(_)
parseTavilyResults_NestedAborts(responseText) ==
    IF responseText = <<>> THEN Returned(<<>>)
    ELSE LET line == Head(responseText)
             rest == Tail(responseText)
         IN  IF ~line.data THEN parseTavilyResults_NestedAborts(rest)
             ELSE IF line.k = "empty" \/ line.k = "done"
                  THEN parseTavilyResults_NestedAborts(rest)
             ELSE IF line.k = "bad" THEN parseTavilyResults_NestedAborts(rest)
             ELSE IF line.k = "null" THEN Thrown(NullTypeError)
             ELSE IF line.k = "numtext" THEN parseTavilyResults_NestedAborts(rest)
             ELSE IF ~line.has \/ line.text.k = "empty"
                  THEN parseTavilyResults_NestedAborts(rest)
             ELSE IF line.text.k = "bad" THEN Returned(<<>>)
             ELSE IF line.text.arr THEN Returned(line.text.results)
             ELSE parseTavilyResults_NestedAborts(rest)

\* Variant: an empty results array is passed over like an empty text.
RECURSIVE parseTavilyResults_SkipsEmpty(_)
parseTavilyResults_SkipsEmpty(responseText) ==
    IF responseText = <<>> THEN Returned(<<>>)
    ELSE LET line == Head(responseText)
             rest == Tail(responseText)
         IN  IF ~line.data THEN parseTavilyResults_SkipsEmpty(rest)
             ELSE IF line.k = "empty" \/ line.k = "done"
                  THEN parseTavilyResults_SkipsEmpty(rest)
             ELSE IF line.k = "bad" THEN parseTavilyResults_SkipsEmpty(rest)
             ELSE IF line.k = "null" THEN Thrown(NullTypeError)
             ELSE IF line.k = "numtext" THEN parseTavilyResults_SkipsEmpty(rest)
             ELSE IF ~line.has \/ line.text.k = "empty"
                  THEN parseTavilyResults_SkipsEmpty(rest)
             ELSE IF line.text.k = "bad" THEN parseTavilyResults_SkipsEmpty(rest)
             ELSE IF line.text.arr /\ line.text.results # <<>>
                  THEN Returned(line.text.results)
             ELSE parseTavilyResults_SkipsEmpty(rest)

RECURSIVE parseTavilyResults(_)
parseTavilyResults(responseText) ==
    IF responseText = <<>> THEN Returned(<<>>)
    ELSE LET line == Head(responseText)
             rest == Tail(responseText)
         IN  IF ~line.data THEN parseTavilyResults(rest)
             ELSE IF line.k = "empty" \/ line.k = "done" THEN parseTavilyResults(rest)
             ELSE IF line.k = "bad" THEN parseTavilyResults(rest)
             ELSE IF line.k = "null" THEN Thrown(NullTypeError)
             ELSE IF line.k = "numtext" THEN parseTavilyResults(rest)
             ELSE IF ~line.has \/ line.text.k = "empty" THEN parseTavilyResults(rest)
             ELSE IF line.text.k = "bad" THEN parseTavilyResults(rest)
             ELSE IF line.text.arr THEN Returned(line.text.results)
             ELSE parseTavilyResults(rest)

Result(title, url, content) == [title |-> title, url |-> url, content |-> content]

formatResult(result) ==
    <<"Title: ">> \o (IF result.title = Null THEN <<>> ELSE result.title)
    \o <<NL, "Url: ">> \o (IF result.url = Null THEN <<>> ELSE result.url)
    \o (IF Falsy(result.content) THEN <<>> ELSE <<NL, "Content: ">> \o result.content)

\* Variant: the records are joined by a line break only.
formatResults_NoBlankLine(results) ==
    Join([k \in 1..Len(results) |-> formatResult(results[k])], <<NL>>)

formatResults(results) ==
    Join([k \in 1..Len(results) |-> formatResult(results[k])], <<NL, NL>>)

\* Bodies a provider may answer with.
ExaBodies ==
    { <<DataText(<<"a">>)>>,
      <<OtherLine, DataText(<<"a", NL, "b", NL, "c", NL, "d">>)>>,
      <<DataBad, DataText(<<" ">>), DataDone>>,
      <<DataNull, DataText(<<"a">>)>>,
      <<OtherLine>> }

TavilyBodies ==
    { <<DataText(InnerResults(<<Result(<<"t">>, <<"u">>, Null)>>))>>,
      <<DataBad, DataText(InnerResults(<<Result(<<"t">>, <<"u">>, <<"c", "c">>)>>))>>,
      <<DataText(InnerResults(<<>>))>>,
      <<DataNull, DataText(InnerResults(<<Result(<<"t">>, <<"u">>, Null)>>))>>,
      <<DataText(InnerBad), DataDone>> }

\* Body of a non-2xx response.
ErrorBodies == { <<"e">> }

\* response.status
Statuses == {200, 500}
ResponseOk(status) == status >= 200 /\ status <= 299

----------------------------------------------------------------------------
(* Cancellation composer *)

\* setTimeout(callback of c, ms) / clearTimeout(timer of c) on a timer table
SetTimeout(T, c, ms) == [x \in DOMAIN T \cup {c} |-> IF x = c THEN ms ELSE T[x]]
ClearTimeout(T, c) == [x \in DOMAIN T \ {c} |-> T[x]]

\* Variant: the listener on the caller's signal is never added.
combineSignals_NoListener(c, hasSignal, timeoutMs, T, L) ==
    LET T1 == SetTimeout(T, c, timeoutMs) IN
    IF ~hasSignal
    THEN [aborted |-> FALSE, timers |-> T1, listeners |-> L, removesListener |-> FALSE]
    ELSE IF callerAborted
    THEN [aborted |-> TRUE, timers |-> T1, listeners |-> L, removesListener |-> FALSE]
    ELSE [aborted |-> FALSE, timers |-> T1, listeners |-> L, removesListener |-> TRUE]

\* Variant: an already aborted caller's signal is treated like a live one.
combineSignals_NoAbortedCheck(c, hasSignal, timeoutMs, T, L) ==
    LET T1 == SetTimeout(T, c, timeoutMs) IN
    IF ~hasSignal
    THEN [aborted |-> FALSE, timers |-> T1, listeners |-> L, removesListener |-> FALSE]
    ELSE [aborted |-> FALSE, timers |-> T1, listeners |-> L \cup {c},
          removesListener |-> TRUE]

\* combineSignals(signal, timeoutMs) for the context c, on the timer table T
\* and the caller signal's listener set L.  aborted is controller.signal.aborted
\* on return; removesListener tells which of the two clear closures is returned.
combineSignals(c, hasSignal, timeoutMs, T, L) ==
    LET T1 == SetTimeout(T, c, timeoutMs) IN
    IF ~hasSignal
    THEN [aborted |-> FALSE, timers |-> T1, listeners |-> L, removesListener |-> FALSE]
    ELSE IF callerAborted
    THEN [aborted |-> TRUE, timers |-> T1, listeners |-> L, removesListener |-> FALSE]
    ELSE [aborted |-> FALSE, timers |-> T1, listeners |-> L \cup {c},
          removesListener |-> TRUE]

\* Variant: clear only stops the timer.
clear_KeepsListener(c, removesListener, T, L) ==
    [timers |-> ClearTimeout(T, c), listeners |-> L]

\* Variant: clear takes every listener off the caller's signal.
clear_RemovesAllListeners(c, removesListener, T, L) ==
    [timers |-> ClearTimeout(T, c),
     listeners |-> IF removesListener THEN {} ELSE L]

\* the clear closure combineSignals returned for c
clear(c, removesListener, T, L) ==
    [timers |-> ClearTimeout(T, c),
     listeners |-> IF removesListener THEN L \ {c} ELSE L]

----------------------------------------------------------------------------
(* State *)

\* no function is being applied on its own
NoCall == [fn |-> "none"]

NoFallback ==
    [pc |-> "idle",             \* idle, fetch, body, write, done, failed
     hasSignal |-> FALSE,
     aborted |-> FALSE,         \* combinedSignal.aborted
     removesListener |-> FALSE,
     status |-> 0,
     query |-> Null,
     content |-> Null,          \* formatResults(results)
     output |-> Null,           \* text of the returned result
     error |-> NoError,         \* error execute threw
     cleared |-> 0,             \* history: calls of clear()
     cause |-> "none",          \* history: what aborted the controller first
     requested |-> FALSE,       \* history: fetch was called
     written |-> <<>>]          \* history: the files this call wrote

NoAttempt ==
    [phase |-> "none",          \* none, fetch, body, settled, closed
     hasSignal |-> FALSE,       \* callProvider was given a signal
     aborted |-> FALSE,         \* controller.signal.aborted
     removesListener |-> FALSE,
     status |-> 0,              \* response.status once the headers arrived
     ok |-> FALSE,              \* the adapter's promise fulfilled
     value |-> Null,            \* ... with this content
     error |-> NoError,         \* or rejected with this error
     thrown |-> NoError,        \* what callProvider threw to execute
     cleared |-> 0,             \* history: calls of clear()
     cause |-> "none",          \* history: what aborted the controller first
     parentAbortedAtStart |-> FALSE, \* history: signal.aborted at combineSignals
     abortedAtStart |-> FALSE,  \* history: controller.signal.aborted on return
     timerAtStart |-> 0,        \* history: ms of the timer combineSignals set
     sentAuth |-> FALSE,        \* history: request carried a bearer credential
     calls |-> 0]               \* history: times callProvider ran for this provider

NoInvocation ==
    [pc |-> "idle",             \* idle, exa, tavily, write, done, failed
     hasSignal |-> FALSE,
     query |-> Null,
     maxResults |-> 0,
     content |-> Null,
     exaError |-> NoError,
     formatted |-> Null,        \* history: the text given to formatOutput
     output |-> Null,           \* text of the returned result
     error |-> NoError,         \* error execute threw
     written |-> <<>>]          \* history: the files this call wrote

Init ==
    /\ inv = [i \in Invocations |-> NoInvocation]
    /\ att = [c \in CtxIds |-> NoAttempt]
    /\ timers = << >>
    /\ listeners = {}
    /\ callerAborted = FALSE
    /\ tavilyKey \in BOOLEAN
    /\ files = <<>>
    /\ fb = NoFallback
    /\ call = NoCall

----------------------------------------------------------------------------
(* Inputs *)

Queries == { Null, <<" ">>, <<" ", "q">> }
\* maxResults: absent, or a number
MaxResultsInputs == { <<>>, <<4>>, <<5>>, <<21>> }

normalizeParams(rawQuery, rawMaxResults) ==
    LET query == IF rawQuery = Null THEN Null ELSE Trim(rawQuery)
        maxResults == IF rawMaxResults = <<>> THEN DEFAULT_MAX_RESULTS
                      ELSE rawMaxResults[1]
    IN  IF Falsy(query)
        THEN [ok |-> FALSE, error |-> Error(<<"Search query cannot be empty">>),
              query |-> Null, maxResults |-> 0]
        ELSE IF maxResults < MIN_MAX_RESULTS \/ maxResults > MAX_MAX_RESULTS
        THEN [ok |-> FALSE,
              error |-> Error(<<"maxResults must be between ", ToString(MIN_MAX_RESULTS),
                                " and ", ToString(MAX_MAX_RESULTS)>>),
              query |-> Null, maxResults |-> 0]
        ELSE [ok |-> TRUE, error |-> NoError, query |-> query, maxResults |-> maxResults]

----------------------------------------------------------------------------
(* callProvider and the adapters *)

\* searchTavily's check of process.env.TAVILY_API_KEY
\* Variant: searchTavily sends its request without looking at the key.
MissingKey_Never(p) == FALSE

MissingKey(p) == p = "tavily" /\ ~tavilyKey

KeyError == Error(<<"TAVILY_API_KEY environment variable is not set">>)

\* Variant: Tavily runs under the signal and timer made for Exa.
callProviderBegin_SharedScope(c, hasSignal, A, T, L) ==
    LET p == c[2]
        first == A[<<c[1], "exa">>]
        shared == p = "tavily" /\ first.phase # "none"
        cs == IF shared
              THEN [aborted |-> first.aborted, timers |-> T, listeners |-> L,
                    removesListener |-> FALSE]
              ELSE combineSignals(c, hasSignal, REQUEST_TIMEOUT_MS, T, L)
    IN  [att |-> [A EXCEPT ![c] =
                    [NoAttempt EXCEPT
                       !.phase = IF MissingKey(p) THEN "settled" ELSE "fetch",
                       !.hasSignal = hasSignal,
                       !.aborted = cs.aborted,
                       !.removesListener = cs.removesListener,
                       !.error = IF MissingKey(p) THEN KeyError ELSE NoError,
                       !.cause = IF cs.aborted THEN "sync" ELSE "none",
                       !.parentAbortedAtStart = hasSignal /\ callerAborted,
                       !.abortedAtStart = cs.aborted,
                       !.timerAtStart = IF c \in DOMAIN cs.timers THEN cs.timers[c] ELSE 0,
                       !.sentAuth = p = "tavily" /\ ~MissingKey(p),
                       !.calls = A[c].calls + 1]],
         timers |-> cs.timers,
         listeners |-> cs.listeners]

\* callProvider up to its await: combineSignals, then the adapter runs to
\* its first await (fetch is issued), or rejects at once without a key.
callProviderBegin(c, hasSignal, A, T, L) ==
    LET cs == combineSignals(c, hasSignal, REQUEST_TIMEOUT_MS, T, L)
        p == c[2]
    IN  [att |-> [A EXCEPT ![c] =
                    [NoAttempt EXCEPT
                       !.phase = IF MissingKey(p) THEN "settled" ELSE "fetch",
                       !.hasSignal = hasSignal,
                       !.aborted = cs.aborted,
                       !.removesListener = cs.removesListener,
                       !.error = IF MissingKey(p) THEN KeyError ELSE NoError,
                       !.cause = IF cs.aborted THEN "sync" ELSE "none",
                       !.parentAbortedAtStart = hasSignal /\ callerAborted,
                       !.abortedAtStart = cs.aborted,
                       !.timerAtStart = cs.timers[c],
                       !.sentAuth = p = "tavily" /\ ~MissingKey(p),
                       !.calls = A[c].calls + 1]],
         timers |-> cs.timers,
         listeners |-> cs.listeners]

\* Variant: clear() follows the await inside try, so a rejection skips it.
callProviderEnd_ClearOnSuccessOnly(c, A, T, L) ==
    LET a == A[c]
        cl == IF a.ok THEN clear(c, a.removesListener, T, L)
              ELSE [timers |-> T, listeners |-> L]
        thrown == IF a.ok THEN NoError
                  ELSE IF isAbortError(a.error) THEN Error(<<"Search request timed out">>)
                  ELSE a.error
    IN  [att |-> [A EXCEPT ![c].phase = "closed",
                           ![c].thrown = thrown,
                           ![c].cleared = IF a.ok THEN a.cleared + 1 ELSE a.cleared],
         ok |-> a.ok,
         content |-> a.value,
         thrown |-> thrown,
         timers |-> cl.timers,
         listeners |-> cl.listeners]

\* callProvider after its await: catch (an AbortError becomes "Search
\* request timed out"), finally clear().
callProviderEnd(c, A, T, L) ==
    LET a == A[c]
        cl == clear(c, a.removesListener, T, L)
        thrown == IF a.ok THEN NoError
                  ELSE IF isAbortError(a.error) THEN Error(<<"Search request timed out">>)
                  ELSE a.error
    IN  [att |-> [A EXCEPT ![c].phase = "closed",
                           ![c].thrown = thrown,
                           ![c].cleared = a.cleared + 1],
         ok |-> a.ok,
         content |-> a.value,
         thrown |-> thrown,
         timers |-> cl.timers,
         listeners |-> cl.listeners]

\* Variant: whatever the decoder returned is the adapter's content.
searchExaBody_NoEmptyCheck(status, errorText, responseText) ==
    IF ~ResponseOk(status)
    THEN [ok |-> FALSE, value |-> Null,
          error |-> Error(<<"Exa search error (", ToString(status), "): ">> \o errorText)]
    ELSE LET r == parseExaContent(responseText) IN
         IF r.thrown # NoError
         THEN [ok |-> FALSE, value |-> Null, error |-> r.thrown]
         ELSE [ok |-> TRUE, value |-> r.value, error |-> NoError]

\* searchExa after `await response.text()`: errorText is the body of a
\* non-2xx response, responseText that of a 2xx one.  [ok, value, error]
searchExaBody(status, errorText, responseText) ==
    IF ~ResponseOk(status)
    THEN [ok |-> FALSE, value |-> Null,
          error |-> Error(<<"Exa search error (", ToString(status), "): ">> \o errorText)]
    ELSE LET r == parseExaContent(responseText)
             content == r.value
         IN  IF r.thrown # NoError
             THEN [ok |-> FALSE, value |-> Null, error |-> r.thrown]
             ELSE IF Falsy(content)
             THEN [ok |-> FALSE, value |-> Null,
                   error |-> Error(<<"Exa search returned empty content">>)]
             ELSE [ok |-> TRUE, value |-> content, error |-> NoError]

\* Variant: an empty result list is formatted and returned.
searchTavilyBody_NoEmptyCheck(status, errorText, responseText) ==
    IF ~ResponseOk(status)
    THEN [ok |-> FALSE, value |-> Null,
          error |-> Error(<<"Tavily search error (", ToString(status), "): ">> \o errorText)]
    ELSE LET r == parseTavilyResults(responseText) IN
         IF r.thrown # NoError
         THEN [ok |-> FALSE, value |-> Null, error |-> r.thrown]
         ELSE [ok |-> TRUE, value |-> formatResults(r.value), error |-> NoError]

\* searchTavily after `await response.text()`
\* Variant: the body is decoded whatever the status.
searchTavilyBody_AnyStatus(status, errorText, responseText) ==
    LET r == parseTavilyResults(responseText)
        results == r.value
    IN  IF r.thrown # NoError
        THEN [ok |-> FALSE, value |-> Null, error |-> r.thrown]
        ELSE IF Len(results) = 0
        THEN [ok |-> FALSE, value |-> Null,
              error |-> Error(<<"Tavily search returned empty content">>)]
        ELSE [ok |-> TRUE, value |-> formatResults(results), error |-> NoError]

searchTavilyBody(status, errorText, responseText) ==
    IF ~ResponseOk(status)
    THEN [ok |-> FALSE, value |-> Null,
          error |-> Error(<<"Tavily search error (", ToString(status), "): ">> \o errorText)]
    ELSE LET r == parseTavilyResults(responseText)
             results == r.value
         IN  IF r.thrown # NoError
             THEN [ok |-> FALSE, value |-> Null, error |-> r.thrown]
             ELSE IF Len(results) = 0
             THEN [ok |-> FALSE, value |-> Null,
                   error |-> Error(<<"Tavily search returned empty content">>)]
             ELSE [ok |-> TRUE, value |-> formatResults(results), error |-> NoError]

\* `await provider(...)` in callProvider resumes once the adapter's promise
\* has settled.
Awaited(c) == att[c].phase = "settled"

----------------------------------------------------------------------------
(* execute *)

\* Variant: Tavily is tried whatever Exa returned.
TriesTavily_Always(content) == TRUE

\* `if (!content)`: the second provider is tried
TriesTavily(content) == Falsy(content)

\* Variant: the two reasons change places.
BothFailed_Swapped(exaError, tavilyError) ==
    Error(<<"Websearch failed with both providers. ", "Exa", ": ">> \o tavilyError.message
          \o <<". ", "Tavily", ": ">> \o exaError.message)

\* the error thrown when Tavily fails too
BothFailed(exaError, tavilyError) ==
    LET exaMessage == IF exaError = NoError THEN <<"Unknown Exa error">>
                      ELSE exaError.message
    IN  Error(<<"Websearch failed with both providers. ", "Exa", ": ">> \o exaMessage
              \o <<". ", "Tavily", ": ">> \o tavilyError.message)

\* Variant: a recorded Exa error is put in front of the content.
Bound_KeepsExaError(r, content) ==
    LET c == r.exaError.message \o content
        f == formatOutput(c)
    IN  [r EXCEPT !.content = c,
                  !.formatted = c,
                  !.output = f.output,
                  !.pc = IF f.truncated THEN "write" ELSE "done"]

\* execute from formatOutput on, up to `await writeTempOutput(content)`
Bound(r, content) ==
    LET f == formatOutput(content) IN
    [r EXCEPT !.content = content,
              !.formatted = content,
              !.output = f.output,
              !.pc = IF f.truncated THEN "write" ELSE "done"]

\* Variant: both providers are called at once.
Execute_FanOut(i, rawQuery, rawMaxResults, hasSignal) ==
    /\ inv[i].pc = "idle"
    /\ fb.pc = "idle"
    /\ LET params == normalizeParams(rawQuery, rawMaxResults) IN
       IF ~params.ok
       THEN /\ inv' = [inv EXCEPT ![i].pc = "failed", ![i].error = params.error]
            /\ UNCHANGED <<att, timers, listeners>>
       ELSE LET b == callProviderBegin(<<i, "exa">>, hasSignal, att, timers, listeners)
                b2 == callProviderBegin(<<i, "tavily">>, hasSignal,
                                        b.att, b.timers, b.listeners)
            IN
            /\ inv' = [inv EXCEPT ![i].pc = "exa",
                                  ![i].hasSignal = hasSignal,
                                  ![i].query = params.query,
                                  ![i].maxResults = params.maxResults]
            /\ att' = b2.att
            /\ timers' = b2.timers
            /\ listeners' = b2.listeners
    /\ UNCHANGED <<callerAborted, tavilyKey, fb, call, files>>

\* execute is called: normalizeParams, then callProvider(searchExa, ...)
Execute(i, rawQuery, rawMaxResults, hasSignal) ==
    /\ inv[i].pc = "idle"
    /\ fb.pc = "idle"
    /\ LET params == normalizeParams(rawQuery, rawMaxResults) IN
       IF ~params.ok
       THEN /\ inv' = [inv EXCEPT ![i].pc = "failed", ![i].error = params.error]
            /\ UNCHANGED <<att, timers, listeners>>
       ELSE LET b == callProviderBegin(<<i, "exa">>, hasSignal, att, timers, listeners) IN
            /\ inv' = [inv EXCEPT ![i].pc = "exa",
                                  ![i].hasSignal = hasSignal,
                                  ![i].query = params.query,
                                  ![i].maxResults = params.maxResults]
            /\ att' = b.att
            /\ timers' = b.timers
            /\ listeners' = b.listeners
    /\ UNCHANGED <<callerAborted, tavilyKey, fb, call, files>>

\* Variant: a failed Exa attempt is tried once more before Tavily.
ExaSettled_RetriesExa(i) ==
    /\ inv[i].pc = "exa"
    /\ Awaited(<<i, "exa">>)
    /\ LET e == callProviderEnd(<<i, "exa">>, att, timers, listeners)
           content == IF e.ok THEN e.content ELSE Null
           r == [inv[i] EXCEPT !.content = content, !.exaError = e.thrown]
           p == IF e.att[<<i, "exa">>].calls < 2 THEN "exa" ELSE "tavily"
       IN  IF TriesTavily(content)
           THEN LET b == callProviderBegin(<<i, p>>, inv[i].hasSignal,
                                           e.att, e.timers, e.listeners) IN
                /\ inv' = [inv EXCEPT ![i] = [r EXCEPT !.pc = p]]
                /\ att' = b.att
                /\ timers' = b.timers
                /\ listeners' = b.listeners
           ELSE /\ inv' = [inv EXCEPT ![i] = Bound(r, content)]
                /\ att' = e.att
                /\ timers' = e.timers
                /\ listeners' = e.listeners
    /\ UNCHANGED <<callerAborted, tavilyKey, fb, call, files>>

\* callProvider(searchExa, ...) settles: lines 111-129 up to the next await
ExaSettled(i) ==
    /\ inv[i].pc = "exa"
    /\ Awaited(<<i, "exa">>)
    /\ LET e == callProviderEnd(<<i, "exa">>, att, timers, listeners)
           content == IF e.ok THEN e.content ELSE Null
           r == [inv[i] EXCEPT !.content = content, !.exaError = e.thrown]
       IN  IF TriesTavily(content)
           THEN LET b == callProviderBegin(<<i, "tavily">>, inv[i].hasSignal,
                                           e.att, e.timers, e.listeners) IN
                /\ inv' = [inv EXCEPT ![i] = [r EXCEPT !.pc = "tavily"]]
                /\ att' = b.att
                /\ timers' = b.timers
                /\ listeners' = b.listeners
           ELSE /\ inv' = [inv EXCEPT ![i] = Bound(r, content)]
                /\ att' = e.att
                /\ timers' = e.timers
                /\ listeners' = e.listeners
    /\ UNCHANGED <<callerAborted, tavilyKey, fb, call, files>>

\* callProvider(searchTavily, ...) settles
TavilySettled(i) ==
    /\ inv[i].pc = "tavily"
    /\ Awaited(<<i, "tavily">>)
    /\ LET e == callProviderEnd(<<i, "tavily">>, att, timers, listeners) IN
       /\ inv' = [inv EXCEPT ![i] =
                    IF e.ok THEN Bound(inv[i], e.content)
                    ELSE [inv[i] EXCEPT !.pc = "failed",
                                        !.error = BothFailed(inv[i].exaError, e.thrown)]]
       /\ att' = e.att
       /\ timers' = e.timers
       /\ listeners' = e.listeners
    /\ UNCHANGED <<callerAborted, tavilyKey, fb, call, files>>

\* Variant: the file receives the truncated text.
WriteDone_WritesHead(i) ==
    /\ inv[i].pc = "write"
    /\ Len(files) < MaxFiles
    /\ LET path == TempPath(Len(files) + 1)
           f == formatOutput(inv[i].content)
           file == [path |-> path, content |-> f.output]
       IN  /\ files' = Append(files, file)
           /\ inv' = [inv EXCEPT ![i].pc = "done",
                                 ![i].written = Append(inv[i].written, file),
                                 ![i].output = f.output \o getTruncationNotice(f.meta, path)]
    /\ UNCHANGED <<att, timers, listeners, callerAborted, tavilyKey, fb, call>>

\* writeTempOutput succeeded: the notice is appended and execute returns
WriteDone(i) ==
    /\ inv[i].pc = "write"
    /\ Len(files) < MaxFiles
    /\ LET path == TempPath(Len(files) + 1)
           f == formatOutput(inv[i].content)
           file == [path |-> path, content |-> inv[i].content]
       IN  /\ files' = Append(files, file)
           /\ inv' = [inv EXCEPT ![i].pc = "done",
                                 ![i].written = Append(inv[i].written, file),
                                 ![i].output = f.output \o getTruncationNotice(f.meta, path)]
    /\ UNCHANGED <<att, timers, listeners, callerAborted, tavilyKey, fb, call>>

WriteError == [name |-> "Error", message |-> <<"EACCES: permission denied">>]

\* Variant: a failed write is swallowed and the truncated text returned.
WriteFailed_Swallowed(i) ==
    /\ inv[i].pc = "write"
    /\ inv' = [inv EXCEPT ![i].pc = "done"]
    /\ UNCHANGED <<att, timers, listeners, callerAborted, tavilyKey, fb, call, files>>

\* fs.mkdir or fs.writeFile rejected: execute throws that error
WriteFailed(i) ==
    /\ inv[i].pc = "write"
    /\ inv' = [inv EXCEPT ![i].pc = "failed", ![i].output = Null, ![i].error = WriteError]
    /\ UNCHANGED <<att, timers, listeners, callerAborted, tavilyKey, fb, call, files>>

\* the caller has received the result or the error; the slot is free
Return(i) ==
    /\ inv[i].pc \in {"done", "failed"}
    /\ inv' = [inv EXCEPT ![i] = NoInvocation]
    /\ att' = [c \in CtxIds |-> IF c[1] = i THEN NoAttempt ELSE att[c]]
    /\ UNCHANGED <<timers, listeners, callerAborted, tavilyKey, fb, call, files>>

----------------------------------------------------------------------------
(* The network, the timers and the caller *)

\* fetch resolves with the response's status line and headers
FetchResolved(c, status) ==
    /\ att[c].phase = "fetch"
    /\ ~att[c].aborted
    /\ att' = [att EXCEPT ![c].phase = "body", ![c].status = status]
    /\ UNCHANGED <<inv, timers, listeners, callerAborted, tavilyKey, fb, call, files>>

\* response.text() resolves; the adapter decodes and settles
BodyRead(c) ==
    /\ att[c].phase = "body"
    /\ ~att[c].aborted
    /\ \E errorText \in ErrorBodies :
         \E responseText \in (IF c[2] = "exa" THEN ExaBodies ELSE TavilyBodies) :
           LET r == IF c[2] = "exa"
                    THEN searchExaBody(att[c].status, errorText, responseText)
                    ELSE searchTavilyBody(att[c].status, errorText, responseText)
           IN att' = [att EXCEPT ![c].phase = "settled", ![c].ok = r.ok,
                                 ![c].value = r.value, ![c].error = r.error]
    /\ UNCHANGED <<inv, timers, listeners, callerAborted, tavilyKey, fb, call, files>>

\* the connection fails while fetch or response.text() is pending
NetworkFailed(c) ==
    /\ att[c].phase \in {"fetch", "body"}
    /\ ~att[c].aborted
    /\ att' = [att EXCEPT ![c].phase = "settled", ![c].error = NetworkError]
    /\ UNCHANGED <<inv, timers, listeners, callerAborted, tavilyKey, fb, call, files>>

\* fetch / response.text() reject because their signal is aborted
Aborted(c) ==
    /\ att[c].phase \in {"fetch", "body"}
    /\ att[c].aborted
    /\ att' = [att EXCEPT ![c].phase = "settled", ![c].error = AbortError]
    /\ UNCHANGED <<inv, timers, listeners, callerAborted, tavilyKey, fb, call, files>>

\* controller.abort() of context c, caused by `why`
Abort(A, c, why) ==
    [A EXCEPT ![c].aborted = TRUE,
              ![c].cause = IF A[c].aborted THEN A[c].cause ELSE why]

\* Variant: the timeout callback does not abort the controller.
TimerFired_NoAbort(c) ==
    /\ c \in DOMAIN timers
    /\ timers[c] = 0
    /\ timers' = ClearTimeout(timers, c)
    /\ UNCHANGED <<inv, att, listeners, callerAborted, tavilyKey, fb, call, files>>

\* the timeout callback of context c runs
TimerFired(c) ==
    /\ c \in DOMAIN timers
    /\ timers[c] = 0
    /\ timers' = ClearTimeout(timers, c)
    /\ att' = Abort(att, c, "timer")
    /\ UNCHANGED <<inv, listeners, callerAborted, tavilyKey, fb, call, files>>

\* time passes; a timer that is due runs before more time passes
Tick ==
    /\ DOMAIN timers # {}
    /\ \A c \in DOMAIN timers : timers[c] > 0
    /\ timers' = [c \in DOMAIN timers |->
                    IF timers[c] > TickMs THEN timers[c] - TickMs ELSE 0]
    /\ UNCHANGED <<inv, att, listeners, callerAborted, tavilyKey, fb, call, files>>

\* the caller aborts its signal: every registered listener runs, once
CallerAbort ==
    /\ ~callerAborted
    /\ callerAborted' = TRUE
    /\ att' = [c \in DOMAIN att |->
                 IF c \in listeners THEN Abort(att, c, "parent")[c] ELSE att[c]]
    /\ fb' = IF FbCtx \in listeners
             THEN [fb EXCEPT !.aborted = TRUE,
                             !.cause = IF fb.aborted THEN fb.cause ELSE "parent"]
             ELSE fb
    /\ listeners' = {}
    /\ UNCHANGED <<inv, timers, tavilyKey, call, files>>

Next ==
    \/ \E i \in Invocations, q \in Queries, m \in MaxResultsInputs, s \in BOOLEAN :
         Execute(i, q, m, s)
    \/ \E i \in Invocations : ExaSettled(i)
    \/ \E i \in Invocations : TavilySettled(i)
    \/ \E i \in Invocations : WriteDone(i)
    \/ \E i \in Invocations : WriteFailed(i)
    \/ \E i \in Invocations : Return(i)
    \/ \E c \in CtxIds, st \in Statuses : FetchResolved(c, st)
    \/ \E c \in CtxIds : BodyRead(c)
    \/ \E c \in CtxIds : NetworkFailed(c)
    \/ \E c \in CtxIds : Aborted(c)
    \/ \E c \in CtxIds : TimerFired(c)
    \/ Tick
    \/ CallerAbort

Spec == Init /\ [][Next]_vars

----------------------------------------------------------------------------
(* Vocabulary of the properties *)

Exa(i) == att[<<i, "exa">>]
Tavily(i) == att[<<i, "tavily">>]

\* the attempt of context c has begun / is between combineSignals and clear()
Begun(c) == att[c].phase # "none"
Live(c) == att[c].phase \in {"fetch", "body", "settled"}
InFlight(c) == att[c].phase \in {"fetch", "body"}
Closed(c) == att[c].phase = "closed"

\* the failure message of a closed, failed attempt, as the attempt reports it
TimedOut == <<"Search request timed out">>
OwnMessage(a) == IF a.error.name = "AbortError" THEN TimedOut ELSE a.error.message

Range(s) == { s[k] : k \in 1..Len(s) }

\* execute got past the providers and bounded a content
Bounded(i) == inv[i].formatted # Null

----------------------------------------------------------------------------
\* C1: when the Exa attempt resolves with non-empty content, no Tavily
\* attempt is begun in that invocation, and the text given to formatOutput is
\* exactly the content searchExa returned.
C1_ExaSuccessShortCircuits ==
    \A i \in Invocations :
        (Exa(i).phase \in {"settled", "closed"} /\ Exa(i).ok /\ ~Falsy(Exa(i).value))
        => /\ Tavily(i).phase = "none"
           /\ Exa(i).phase = "closed"
              => /\ inv[i].pc \in {"write", "done", "failed"}
                 /\ inv[i].formatted = Exa(i).value
                 /\ inv[i].content = Exa(i).value

\* an invocation returned on Exa's content alone
C1_Witness ==
    \E i \in Invocations :
        /\ inv[i].pc = "done"
        /\ Exa(i).phase = "closed" /\ Exa(i).ok
        /\ Tavily(i).phase = "none"
        /\ inv[i].output = Exa(i).value

----------------------------------------------------------------------------
\* C2: when the Exa attempt failed (whatever the failure) and the Tavily
\* attempt then succeeded, the invocation does not fail for the providers'
\* sake (the one error left is that of the overflow write), the text it
\* returns is Tavily's formatted content, bounded (the kept head plus the
\* notice naming the written file when truncated), and neither that text nor
\* the details hold any part of the recorded Exa error.
C2_TavilySuccessIsClean ==
    \A i \in Invocations :
        (Closed(<<i, "exa">>) /\ ~Exa(i).ok /\ Closed(<<i, "tavily">>) /\ Tavily(i).ok)
        => LET t == truncateHead(Tavily(i).value, DEFAULT_MAX_LINES, DEFAULT_MAX_BYTES)
               exaParts == Range(inv[i].exaError.message) \cup Range(Exa(i).error.message)
           IN  /\ inv[i].exaError # NoError
               /\ inv[i].pc \in {"write", "done", "failed"}
               /\ inv[i].pc = "failed" => inv[i].error = WriteError /\ t.truncated
               /\ inv[i].formatted = Tavily(i).value
               /\ inv[i].pc = "done"
                  => /\ ~t.truncated => inv[i].output = Tavily(i).value
                     /\ t.truncated
                        => \E k \in 1..Len(files) :
                             /\ files[k].content = Tavily(i).value
                             /\ inv[i].output =
                                  t.content \o getTruncationNotice(
                                      [outputLines |-> t.outputLines,
                                       totalLines |-> t.totalLines,
                                       outputBytes |-> t.outputBytes,
                                       totalBytes |-> t.totalBytes], files[k].path)
                     /\ Range(inv[i].output) \cap exaParts = {}
               /\ Range(inv[i].query) \cap exaParts = {}
               /\ inv[i].maxResults \in MIN_MAX_RESULTS..MAX_MAX_RESULTS

\* Exa timed out, Tavily answered, and the invocation returned a truncated
\* text with its notice
C2_Witness ==
    \E i \in Invocations :
        /\ inv[i].pc = "done"
        /\ Closed(<<i, "exa">>) /\ Exa(i).error = AbortError /\ Exa(i).cause = "timer"
        /\ Closed(<<i, "tavily">>) /\ Tavily(i).ok
        /\ formatOutput(Tavily(i).value).truncated
        /\ inv[i].output # Null

----------------------------------------------------------------------------
\* C3: when both attempts failed, execute throws one error; its message names
\* Exa, then gives the Exa attempt's failure message, then names Tavily, then
\* gives the Tavily attempt's failure message.
C3_BothFailedMessage ==
    \A i \in Invocations :
        (Closed(<<i, "exa">>) /\ ~Exa(i).ok /\ Closed(<<i, "tavily">>) /\ ~Tavily(i).ok)
        => LET m == inv[i].error.message
               em == OwnMessage(Exa(i))
               tm == OwnMessage(Tavily(i))
           IN  /\ inv[i].pc = "failed"
               /\ inv[i].error.name = "Error"
               /\ inv[i].output = Null
               /\ \E a, b \in 1..Len(m) :
                    /\ m[a] = "Exa"
                    /\ OccursAt(m, em, a + 2)
                    /\ b >= a + 2 + Len(em)
                    /\ m[b] = "Tavily"
                    /\ OccursAt(m, tm, b + 2)
                    /\ Len(m) = b + 1 + Len(tm)

\* Exa answered 500, Tavily returned no results
C3_Witness ==
    \E i \in Invocations :
        /\ inv[i].pc = "failed"
        /\ Closed(<<i, "exa">>) /\ Exa(i).status = 500 /\ ~Exa(i).ok
        /\ Closed(<<i, "tavily">>)
        /\ Tavily(i).error = Error(<<"Tavily search returned empty content">>)

----------------------------------------------------------------------------
\* C4: when the caller's signal is aborted before execute is called or while
\* the Exa request is in flight (so that the Exa attempt ends aborted by the
\* caller), the orchestrator stops: no Tavily attempt is begun.
C4_NoTavilyAfterCallerAbort ==
    \A i \in Invocations :
        (Exa(i).cause \in {"sync", "parent"} /\ Exa(i).error = AbortError)
        => ~Begun(<<i, "tavily">>)

----------------------------------------------------------------------------
\* C5: a completed fallback sequence has one of two outcomes: a content that
\* is not empty (that of the last provider attempted, which succeeded), or
\* the one error thrown after Tavily failed, whose message holds the failure
\* message of every attempt made; never an empty content, never both, never
\* an error that leaves an attempt's failure out.
SequenceDone(i) ==
    /\ inv[i].pc \in {"write", "done", "failed"}
    /\ Closed(<<i, "exa">>)

Attempted(i) == { p \in Providers : Begun(<<i, p>>) }

C5_OneOfTwoOutcomes ==
    \A i \in Invocations :
        SequenceDone(i)
        => \/ /\ Bounded(i)
              /\ inv[i].formatted # <<>>
              /\ inv[i].error \in {NoError, WriteError}
              /\ \E p \in Attempted(i) :
                   /\ att[<<i, p>>].ok
                   /\ inv[i].formatted = att[<<i, p>>].value
                   /\ \A o \in Attempted(i) \ {p} : ~att[<<i, o>>].ok
           \/ /\ ~Bounded(i)
              /\ inv[i].pc = "failed"
              /\ inv[i].output = Null
              /\ Attempted(i) = Providers
              /\ \A p \in Attempted(i) :
                   /\ Closed(<<i, p>>)
                   /\ ~att[<<i, p>>].ok
                   /\ Contains(inv[i].error.message, OwnMessage(att[<<i, p>>]))

\* Exa's body decoded to nothing, Tavily's content won
C5_Witness ==
    \E i \in Invocations :
        /\ SequenceDone(i)
        /\ Exa(i).error = Error(<<"Exa search returned empty content">>)
        /\ Tavily(i).ok
        /\ Bounded(i)

----------------------------------------------------------------------------
\* C6: within an invocation the attempts do not overlap: a Tavily attempt
\* exists only once the Exa attempt has settled and its context has been
\* disposed (no timer, no listener of it left), and the two requests are
\* never in flight together.
C6_AttemptsSequential ==
    \A i \in Invocations :
        /\ Begun(<<i, "tavily">>)
           => /\ Closed(<<i, "exa">>)
              /\ Exa(i).cleared = 1
              /\ <<i, "exa">> \notin DOMAIN timers
              /\ <<i, "exa">> \notin listeners
        /\ ~(InFlight(<<i, "exa">>) /\ InFlight(<<i, "tavily">>))
        /\ Cardinality({ c \in CtxIds : c[1] = i /\ Live(c) }) <= 1

\* the Tavily request is in flight after a failed Exa attempt
C6_Witness ==
    \E i \in Invocations :
        /\ InFlight(<<i, "tavily">>)
        /\ Closed(<<i, "exa">>)
        /\ ~Exa(i).ok

----------------------------------------------------------------------------
\* C7: when the Exa request was aborted by its own timer, that is recorded as
\* Exa's failure ("Search request timed out") and a Tavily attempt is begun
\* with a timer of the full REQUEST_TIMEOUT_MS; unless the caller's signal
\* was aborted by then, its derived signal is not aborted on return from
\* combineSignals.
C7_FreshScopePerAttempt ==
    \A i \in Invocations :
        (Closed(<<i, "exa">>) /\ Exa(i).cause = "timer" /\ Exa(i).error = AbortError)
        => /\ inv[i].exaError = Error(TimedOut)
           /\ Exa(i).thrown = Error(TimedOut)
           /\ Begun(<<i, "tavily">>)
           /\ Tavily(i).timerAtStart = REQUEST_TIMEOUT_MS
           /\ ~Tavily(i).parentAbortedAtStart => ~Tavily(i).abortedAtStart
           /\ (Live(<<i, "tavily">>) /\ ~Tavily(i).aborted)
              => <<i, "tavily">> \in DOMAIN timers

\* Exa timed out with the caller's signal untouched; the Tavily request is
\* in flight under a signal that is not aborted and a timer with all its time
C7_Witness ==
    \E i \in Invocations :
        /\ inv[i].hasSignal /\ ~callerAborted
        /\ Closed(<<i, "exa">>) /\ Exa(i).cause = "timer" /\ Exa(i).error = AbortError
        /\ Tavily(i).phase = "fetch" /\ ~Tavily(i).aborted
        /\ <<i, "tavily">> \in DOMAIN timers
        /\ timers[<<i, "tavily">>] = REQUEST_TIMEOUT_MS

----------------------------------------------------------------------------
\* C8: clear() of an attempt's context is called once on every way out of
\* the attempt, after which the context has neither a pending timer nor a
\* listener on the caller's signal; so whenever no attempt is under way,
\* no timer is pending and the caller's signal has no listener of this code.
C8_ContextsDisposed ==
    /\ \A c \in CtxIds :
         /\ Closed(c) => att[c].cleared = 1
         /\ ~Live(c) => c \notin DOMAIN timers /\ c \notin listeners
    /\ (\A i \in Invocations : inv[i].pc \in {"idle", "write", "done", "failed"})
       => timers = << >> /\ listeners = {}

\* an invocation ended with Exa timed out and Tavily aborted by the caller
C8_Witness ==
    \E i \in Invocations :
        /\ inv[i].pc = "failed"
        /\ Closed(<<i, "exa">>) /\ Exa(i).cause = "timer" /\ Exa(i).error = AbortError
        /\ Closed(<<i, "tavily">>) /\ Tavily(i).cause = "parent"
        /\ Tavily(i).error = AbortError
        /\ timers = << >> /\ listeners = {}

----------------------------------------------------------------------------
\* C9: while its context is not disposed, the derived signal is aborted at
\* the first of its timer running out and the caller's signal being aborted
\* (without a caller's signal: when the timer runs out), by nothing else, and
\* for good: an aborted derived signal stays aborted, whatever happens next.
\* In steps: the caller's abort aborts every live derived signal made from
\* it, a timer leaves a live context only by aborting its signal, a signal
\* that is not aborted at combineSignals' return becomes aborted only in such
\* a step, and until then the timer is pending and the listener registered.
TimerRanOut(c) == c \in DOMAIN timers /\ timers[c] = 0 /\ c \notin DOMAIN timers'
ParentAborts == ~callerAborted /\ callerAborted'

C9_Step(c) ==
    /\ (att[c].aborted /\ Begun(c) /\ att'[c].phase # "none") => att'[c].aborted
    /\ (Live(c) /\ att'[c].phase \in {"fetch", "body", "settled"})
       => /\ (ParentAborts /\ att[c].hasSignal) => att'[c].aborted
          /\ TimerRanOut(c) => att'[c].aborted
          /\ (~att[c].aborted /\ att'[c].aborted)
             => \/ TimerRanOut(c)
                \/ ParentAborts /\ att[c].hasSignal
          /\ (~att[c].aborted /\ att'[c].aborted /\ ~att[c].hasSignal) => TimerRanOut(c)
    /\ (Live(c) /\ ~att[c].aborted)
       => /\ c \in DOMAIN timers
          /\ att[c].hasSignal => c \in listeners /\ ~callerAborted

C9_DerivedSignalAbortsOnce == [][\A c \in CtxIds : C9_Step(c)]_vars

\* a derived signal aborted by the caller, whose timer later ran out while
\* the context was still not disposed: it is aborted, once, by the caller
C9_Witness ==
    \E c \in CtxIds :
        /\ Live(c)
        /\ att[c].aborted /\ att[c].cause = "parent"
        /\ att[c].timerAtStart = REQUEST_TIMEOUT_MS
        /\ c \notin DOMAIN timers

----------------------------------------------------------------------------
\* C10: combineSignals called with a caller's signal that is already aborted
\* returns a derived signal that is aborted, registers no listener on the
\* caller's signal, and has set a timer of the full timeout, which the
\* returned clear() removes.
C10_AlreadyAbortedParent ==
    \A c \in CtxIds :
        (Begun(c) /\ att[c].parentAbortedAtStart)
        => /\ att[c].abortedAtStart
           /\ att[c].aborted
           /\ att[c].cause = "sync"
           /\ c \notin listeners
           /\ att[c].timerAtStart = REQUEST_TIMEOUT_MS
           /\ Closed(c) => c \notin DOMAIN timers /\ att[c].cleared = 1

\* the Exa request was issued under a derived signal aborted at its making,
\* with the timer pending
C10_Witness ==
    \E c \in CtxIds :
        /\ att[c].parentAbortedAtStart
        /\ att[c].phase = "fetch"
        /\ att[c].aborted
        /\ c \in DOMAIN timers /\ timers[c] = REQUEST_TIMEOUT_MS
        /\ c \notin listeners

----------------------------------------------------------------------------
(* The decoders and the adapters' use of them, applied on their own *)

\* Lines of a body handed to a decoder.
MaxBodyLines == 3

SeqsUpTo(S, n) == UNION { [1..k -> S] : k \in 0..n }

R1 == Result(<<"t">>, <<"u">>, Null)
R2 == Result(<<"v">>, Null, <<"c">>)

ExaLines ==
    { OtherLine, DataEmpty, DataDone, DataBad, DataNull, DataNumText,
      DataText(<<>>), DataText(<<" ">>), DataText(<<"a">>), DataText(<<" ", "b">>) }

TavilyLines ==
    { OtherLine, DataEmpty, DataDone, DataBad, DataNull, DataNoText,
      DataText(InnerBad), DataText(InnerNoResults),
      DataText(InnerResults(<<>>)), DataText(InnerResults(<<R1>>)),
      DataText(InnerResults(<<R2, R1>>)) }

DecodeInputs ==
    { [fn |-> "input", provider |-> "exa", body |-> b,
       out |-> Returned(<<>>), res |-> [ok |-> FALSE, value |-> Null, error |-> NoError]]
        : b \in SeqsUpTo(ExaLines, MaxBodyLines) }
    \cup
    { [fn |-> "input", provider |-> "tavily", body |-> b,
       out |-> Returned(<<>>), res |-> [ok |-> FALSE, value |-> Null, error |-> NoError]]
        : b \in SeqsUpTo(TavilyLines, MaxBodyLines) }

InitDecode ==
    /\ inv = [i \in Invocations |-> NoInvocation]
    /\ att = [c \in CtxIds |-> NoAttempt]
    /\ timers = << >>
    /\ listeners = {}
    /\ callerAborted = FALSE
    /\ tavilyKey = TRUE
    /\ files = <<>>
    /\ fb = NoFallback
    /\ call \in DecodeInputs

\* parseExaContent(responseText)
DecodeExa ==
    /\ call.fn = "input" /\ call.provider = "exa"
    /\ call' = [call EXCEPT !.fn = "decode", !.out = parseExaContent(call.body)]
    /\ UNCHANGED <<inv, att, timers, listeners, callerAborted, tavilyKey, fb, files>>

\* parseTavilyResults(responseText)
DecodeTavily ==
    /\ call.fn = "input" /\ call.provider = "tavily"
    /\ call' = [call EXCEPT !.fn = "decode", !.out = parseTavilyResults(call.body)]
    /\ UNCHANGED <<inv, att, timers, listeners, callerAborted, tavilyKey, fb, files>>

\* searchExa from `await response.text()` of a 200 response on
AdaptExa ==
    /\ call.fn = "input" /\ call.provider = "exa"
    /\ call' = [call EXCEPT !.fn = "adapter",
                            !.out = parseExaContent(call.body),
                            !.res = searchExaBody(200, <<>>, call.body)]
    /\ UNCHANGED <<inv, att, timers, listeners, callerAborted, tavilyKey, fb, files>>

\* searchTavily from `await response.text()` of a 200 response on
AdaptTavily ==
    /\ call.fn = "input" /\ call.provider = "tavily"
    /\ call' = [call EXCEPT !.fn = "adapter",
                            !.out = parseTavilyResults(call.body),
                            !.res = searchTavilyBody(200, <<>>, call.body)]
    /\ UNCHANGED <<inv, att, timers, listeners, callerAborted, tavilyKey, fb, files>>

NextDecode == DecodeExa \/ DecodeTavily \/ AdaptExa \/ AdaptTavily

SpecDecode == InitDecode /\ [][NextDecode]_vars

\* Vocabulary: what a line of a body carries.
\* the Exa line has a text with something other than white space in it
ExaUsable(line) ==
    line.data /\ line.k = "json" /\ line.has /\ line.text # <<>>
    /\ \E k \in 1..Len(line.text) : ~IsSpace(line.text[k])
\* the Tavily line's nested text is an object with an array-valued results
TavilyUsable(line) ==
    line.data /\ line.k = "json" /\ line.has /\ line.text.k = "obj" /\ line.text.arr
\* the line's payload parses, but reading it throws
Throwing(provider, line) ==
    line.data /\ (line.k = "null" \/ (provider = "exa" /\ line.k = "numtext"))
\* the line's payload does not parse, at the envelope or at the nested level
Unparseable(provider, line) ==
    line.data /\ (line.k = "bad"
                  \/ (provider = "tavily" /\ line.k = "json" /\ line.has
                      /\ line.text.k = "bad"))
Usable(provider, line) ==
    IF provider = "exa" THEN ExaUsable(line) ELSE TavilyUsable(line)
EmptyContent(provider) ==
    Error(<<(IF provider = "exa" THEN "Exa" ELSE "Tavily")
            \o " search returned empty content">>)

\* C11: an adapter's success never carries an empty or white-space-only
\* content; when the body of a successful response decodes to nothing (no
\* line with a payload, or only empty / white-space-only ones) the adapter
\* fails with "<Provider> search returned empty content".
C11_NoEmptySuccess ==
    call.fn = "adapter" =>
        /\ call.res.ok =>
              /\ call.res.value # Null
              /\ \E k \in 1..Len(call.res.value) : ~IsSpace(call.res.value[k])
        /\ (call.out.thrown = NoError /\ call.out.value = <<>>) =>
              ~call.res.ok /\ call.res.error = EmptyContent(call.provider)
        /\ (\A k \in 1..Len(call.body) :
               /\ ~Throwing(call.provider, call.body[k])
               /\ call.provider = "exa" => ~ExaUsable(call.body[k])
               /\ call.provider = "tavily" =>
                     (TavilyUsable(call.body[k]) => call.body[k].text.results = <<>>))
           => ~call.res.ok /\ call.res.error = EmptyContent(call.provider)

C11_Witness ==
    /\ call.fn = "adapter" /\ call.provider = "exa"
    /\ \E k \in 1..Len(call.body) : call.body[k] = DataText(<<" ">>)
    /\ ~call.res.ok
    /\ call.res.error = Error(<<"Exa search returned empty content">>)

\* the payload a usable line carries
Payload(provider, line) ==
    IF provider = "exa" THEN line.text ELSE line.text.results

\* C12: a data line whose payload does not parse (the envelope, or for Tavily
\* the nested text) does not end the decode: no error leaves the decoder
\* because of it, and a usable line that comes after any number of such lines
\* is the one decoded.
C12_UnparseableLinesSkipped ==
    call.fn = "decode" =>
        /\ (\A k \in 1..Len(call.body) : ~Throwing(call.provider, call.body[k]))
              => call.out.thrown = NoError
        /\ \A k \in 1..Len(call.body) :
              (/\ Usable(call.provider, call.body[k])
               /\ \A j \in 1..(k - 1) : Unparseable(call.provider, call.body[j]))
              => call.out = Returned(Payload(call.provider, call.body[k]))

C12_Witness ==
    /\ call.fn = "decode" /\ call.provider = "tavily"
    /\ call.body = <<DataText(InnerBad), DataBad, DataText(InnerResults(<<R1>>))>>
    /\ call.out = Returned(<<R1>>)

\* C13: a body without any valid data line (one carrying a usable payload)
\* makes the decoder return its absent value, the empty string or the empty
\* list.
C13_NoValidLineIsAbsent ==
    (/\ call.fn = "decode"
     /\ \A k \in 1..Len(call.body) : ~Usable(call.provider, call.body[k]))
    => call.out = Returned(<<>>)

\* C13, first half: lines without the data prefix around exactly one valid
\* data line leave the Exa decoder returning that line's text as it is.
C13_OneValidLineUnchanged ==
    (call.fn = "decode" /\ call.provider = "exa") =>
        \A k \in 1..Len(call.body) :
            (/\ ExaUsable(call.body[k])
             /\ \A j \in 1..Len(call.body) : j # k => ~call.body[j].data)
            => call.out = Returned(call.body[k].text)

\* the decoder of a provider
Decoder(provider, body) ==
    IF provider = "exa" THEN parseExaContent(body) ELSE parseTavilyResults(body)

\* C14: the decoder returns the payload of the first usable line, whatever
\* comes after it: later usable lines, or lines that would make it throw,
\* are not looked at (the result is that of the body cut after that line).
C14_FirstUsableLineWins ==
    call.fn = "decode" =>
        \A k \in 1..Len(call.body) :
            (/\ Usable(call.provider, call.body[k])
             /\ \A j \in 1..(k - 1) :
                   /\ ~Usable(call.provider, call.body[j])
                   /\ ~Throwing(call.provider, call.body[j]))
            => /\ call.out = Returned(Payload(call.provider, call.body[k]))
               /\ call.out = Decoder(call.provider, SubSeq(call.body, 1, k))

C14_Witness ==
    /\ call.fn = "decode" /\ call.provider = "exa"
    /\ call.body = <<DataText(<<"a">>), DataText(<<" ", "b">>), DataNull>>
    /\ call.out = Returned(<<"a">>)

----------------------------------------------------------------------------
(* The overflow file *)

NoticeStart == <<NL, NL, "[Output truncated: ">>
HasNotice(text) == text # Null /\ Contains(text, NoticeStart)

\* the content the providers gave this invocation
ProviderContent(i) == IF Exa(i).ok THEN Exa(i).value ELSE Tavily(i).value

\* C15: while the overflow file is being written the text has no notice; a
\* truncated text is only returned with the notice naming a file that was
\* written; and when the write fails the invocation fails with that error,
\* returns no text and starts no provider attempt after it.
C15_NoticeOnlyAfterWrite ==
    \A i \in Invocations :
        /\ inv[i].pc = "write" =>
              /\ formatOutput(inv[i].content).truncated
              /\ ~HasNotice(inv[i].output)
        /\ (inv[i].pc = "done" /\ formatOutput(inv[i].formatted).truncated) =>
              /\ HasNotice(inv[i].output)
              /\ \E k \in 1..Len(files) :
                    /\ Contains(inv[i].output, files[k].path)
                    /\ files[k] \in Range(inv[i].written)
        /\ (inv[i].pc = "failed" /\ inv[i].error = WriteError) =>
              /\ inv[i].output = Null
              /\ inv[i].written = <<>>
              /\ formatOutput(inv[i].formatted).truncated
              /\ \A p \in Providers : ~Live(<<i, p>>)
              /\ Exa(i).ok => ~Begun(<<i, "tavily">>)

\* Exa's content was too long and the write of the overflow file failed
C15_Witness ==
    \E i \in Invocations :
        /\ inv[i].pc = "failed" /\ inv[i].error = WriteError
        /\ Exa(i).ok /\ Closed(<<i, "exa">>)
        /\ ~Begun(<<i, "tavily">>)

\* C16: an invocation that returns has written an overflow file exactly when
\* its text was truncated, one file at most, holding the providers' content
\* as it was before truncation; without truncation there is no file and no
\* notice, and the text is the content.
C16_OverflowFileIffTruncated ==
    \A i \in Invocations :
        /\ Len(inv[i].written) <= 1
        /\ Range(inv[i].written) \subseteq Range(files)
        /\ inv[i].pc = "done" =>
              LET f == formatOutput(ProviderContent(i)) IN
              /\ (Len(inv[i].written) = 1) <=> f.truncated
              /\ f.truncated =>
                    /\ inv[i].written[1].content = ProviderContent(i)
                    /\ inv[i].written[1].content # f.output
                    /\ HasNotice(inv[i].output)
              /\ ~f.truncated =>
                    /\ inv[i].output = ProviderContent(i)
                    /\ ~HasNotice(inv[i].output)

\* a returned invocation whose file holds more than the text it returned
C16_Witness ==
    \E i \in Invocations :
        /\ inv[i].pc = "done"
        /\ Len(inv[i].written) = 1
        /\ inv[i].written[1].content = Tavily(i).value
        /\ Len(inv[i].written[1].content) > Len(formatOutput(Tavily(i).value).output)

----------------------------------------------------------------------------
(* Output bounding applied on its own *)

\* Elements of a text handed to the bounding, and the limits tried.
MaxContentLen == 4
MaxLinesLimit == 3
MaxBytesLimit == 8

ContentTokens == {"a", NL, "Title: "}
\* by how much a limit is raised for the comparison of two truncations
MoreLines == {0, 1}
MoreBytes == {0, 1, 8}

NoTruncation ==
    [content |-> <<>>, truncated |-> FALSE, totalLines |-> 0, totalBytes |-> 0,
     outputLines |-> 0, outputBytes |-> 0]
NoFormatted == [output |-> <<>>, truncated |-> FALSE, meta |-> NoMeta]

BoundInputs ==
    { [fn |-> "input", content |-> x, maxLines |-> l, maxBytes |-> b,
       moreLines |-> 0, moreBytes |-> 0,
       t1 |-> NoTruncation, t2 |-> NoTruncation,
       f |-> NoFormatted, g |-> NoFormatted]
        : x \in SeqsUpTo(ContentTokens, MaxContentLen),
          l \in 1..MaxLinesLimit, b \in 1..MaxBytesLimit }

InitBound ==
    /\ inv = [i \in Invocations |-> NoInvocation]
    /\ att = [c \in CtxIds |-> NoAttempt]
    /\ timers = << >>
    /\ listeners = {}
    /\ callerAborted = FALSE
    /\ tavilyKey = TRUE
    /\ files = <<>>
    /\ fb = NoFallback
    /\ call \in BoundInputs

\* truncateHead(content, {maxLines, maxBytes}), and again with raised limits
Truncate(moreLines, moreBytes) ==
    /\ call.fn = "input"
    /\ call' = [call EXCEPT
                  !.fn = "truncate",
                  !.moreLines = moreLines,
                  !.moreBytes = moreBytes,
                  !.t1 = truncateHead(call.content, call.maxLines, call.maxBytes),
                  !.t2 = truncateHead(call.content, call.maxLines + moreLines,
                                      call.maxBytes + moreBytes)]
    /\ UNCHANGED <<inv, att, timers, listeners, callerAborted, tavilyKey, fb, files>>

\* formatOutput(content)
Format ==
    /\ call.fn = "input"
    /\ call' = [call EXCEPT !.fn = "format", !.f = formatOutput(call.content)]
    /\ UNCHANGED <<inv, att, timers, listeners, callerAborted, tavilyKey, fb, files>>

\* formatOutput(formatOutput(content).output)
FormatAgain ==
    /\ call.fn = "format"
    /\ call' = [call EXCEPT !.fn = "format2", !.g = formatOutput(call.f.output)]
    /\ UNCHANGED <<inv, att, timers, listeners, callerAborted, tavilyKey, fb, files>>

NextBound ==
    \/ \E moreLines \in MoreLines, moreBytes \in MoreBytes : Truncate(moreLines, moreBytes)
    \/ Format
    \/ FormatAgain

SpecBound == InitBound /\ [][NextBound]_vars

\* Vocabulary: the sizes of a text, counted on the text itself.
LineCount(text) == Cardinality({ k \in 1..Len(text) : text[k] = NL }) + 1
RECURSIVE ByteSize(_, _)
ByteSize(text, k) ==
    IF k > Len(text) THEN 0
    ELSE (IF text[k] \in {"Title: "} THEN 7 ELSE 1) + ByteSize(text, k + 1)
WithinLimits(text) ==
    LineCount(text) <= DEFAULT_MAX_LINES /\ ByteSize(text, 1) <= DEFAULT_MAX_BYTES
IsPrefix(s, t) == Len(s) <= Len(t) /\ SubSeq(t, 1, Len(s)) = s

\* C17: formatOutput's result has metadata exactly when it says truncated;
\* a content within the line and the byte limit comes back unchanged, not
\* truncated and without metadata.
C17_MetaIffTruncated ==
    call.fn \in {"format", "format2"} =>
        /\ (call.f.meta # NoMeta) <=> call.f.truncated
        /\ call.f.truncated =>
              /\ call.f.meta.outputLines >= 0 /\ call.f.meta.outputBytes >= 0
              /\ call.f.meta.totalLines >= 1 /\ call.f.meta.totalBytes >= 0
        /\ WithinLimits(call.content) =>
              /\ call.f.output = call.content
              /\ ~call.f.truncated
              /\ call.f.meta = NoMeta
        /\ ~WithinLimits(call.content) => call.f.truncated

\* a content within the limits went through formatOutput
C17_Witness ==
    /\ call.fn = "format"
    /\ call.content = <<"a", NL, "Title: ", "a">>
    /\ call.f = [output |-> call.content, truncated |-> FALSE, meta |-> NoMeta]

\* C18: raising maxLines and/or maxBytes never shortens what truncateHead
\* keeps (the text kept under the lower limits is a head of the text kept
\* under the higher ones), and the totals reported, by truncateHead under any
\* limits and by formatOutput in its metadata, are the line count and the
\* byte size of the original content.
C18_MonotonicAndTrueTotals ==
    /\ call.fn = "truncate" =>
          /\ IsPrefix(call.t1.content, call.t2.content)
          /\ ByteSize(call.t1.content, 1) <= ByteSize(call.t2.content, 1)
          /\ call.t1.outputLines <= call.t2.outputLines
          /\ IsPrefix(call.t2.content, call.content)
          /\ call.t1.totalLines = LineCount(call.content)
          /\ call.t2.totalLines = LineCount(call.content)
          /\ call.t1.totalBytes = ByteSize(call.content, 1)
          /\ call.t2.totalBytes = ByteSize(call.content, 1)
    /\ (call.fn = "format" /\ call.f.truncated) =>
          /\ call.f.meta.totalLines = LineCount(call.content)
          /\ call.f.meta.totalBytes = ByteSize(call.content, 1)

\* both limits were raised and more of the content was kept
C18_Witness ==
    /\ call.fn = "truncate"
    /\ call.moreLines > 0 /\ call.moreBytes > 0
    /\ call.t1.truncated /\ call.t2.truncated
    /\ Len(call.t1.content) < Len(call.t2.content)
    /\ call.t1.content # <<>>

\* C19: when formatOutput reports no truncation, formatOutput applied to the
\* text it returned gives the same result again: the same text, not
\* truncated, no metadata.
C19_IdempotentWhenShort ==
    (call.fn = "format2" /\ ~call.f.truncated) =>
        /\ call.g = call.f
        /\ call.g.output = call.f.output
        /\ ~call.g.truncated
        /\ call.g.meta = NoMeta

\* a text with white space at its ends went through formatOutput twice
C19_Witness ==
    /\ call.fn = "format2"
    /\ ~call.f.truncated
    /\ call.content = <<NL, "a", NL>>
    /\ call.g.output = call.content

----------------------------------------------------------------------------
(* The websearch_fallback tool (extensions/websearch-fallback.ts) *)

Fallback_REQUEST_TIMEOUT_MS == 25000

\* its own combineSignals, for the context c
Fallback_combineSignals(c, hasSignal, timeoutMs, T, L) ==
    LET T1 == SetTimeout(T, c, timeoutMs) IN
    IF ~hasSignal
    THEN [aborted |-> FALSE, timers |-> T1, listeners |-> L, removesListener |-> FALSE]
    ELSE IF callerAborted
    THEN [aborted |-> TRUE, timers |-> T1, listeners |-> L, removesListener |-> FALSE]
    ELSE [aborted |-> FALSE, timers |-> T1, listeners |-> L \cup {c},
          removesListener |-> TRUE]

\* the clear closure it returned
Fallback_clear(c, removesListener, T, L) ==
    [timers |-> ClearTimeout(T, c),
     listeners |-> IF removesListener THEN L \ {c} ELSE L]

\* the nested text "null": JSON.parse gives null
InnerNull == [k |-> "null", arr |-> FALSE, results |-> <<>>]

\* the message of the SyntaxError JSON.parse throws on a payload of that kind
SyntaxErrorOf(kind) ==
    CASE kind = "empty" -> <<"Unexpected end of JSON input">>
      [] kind = "done" -> <<"Unexpected token 'D', \"[DONE]\" is not valid JSON">>
      [] OTHER -> <<"Unexpected token in JSON">>
NullResultsTypeError == <<"Cannot read properties of null (reading 'results')">>

\* parseResponseText from the line loop on; lastParseError is <<>> or a
\* one-element sequence holding the message.  The result is the results
\* array, a ParseError object, or the error thrown.
RECURSIVE Fallback_scan(_, _)
Fallback_scan(lines, lastParseError) ==
    IF lines = <<>>
    THEN [thrown |-> NoError, parseError |-> TRUE,
          message |-> IF lastParseError # <<>>
                      THEN <<"Failed to parse search response: ">> \o lastParseError[1]
                      ELSE <<"No valid search results found in response">>,
          results |-> <<>>]
    ELSE LET line == Head(lines)
             rest == Tail(lines)
         IN  IF ~line.data THEN Fallback_scan(rest, lastParseError)
             ELSE IF line.k \in {"empty", "done", "bad"}
                  THEN Fallback_scan(rest, <<SyntaxErrorOf(line.k)>>)
             ELSE IF line.k = "null"
                  THEN [thrown |-> NullTypeError, parseError |-> FALSE,
                        message |-> <<>>, results |-> <<>>]
             ELSE IF line.k = "numtext" THEN Fallback_scan(rest, lastParseError)
             ELSE IF ~line.has \/ line.text.k = "empty"
                  THEN Fallback_scan(rest, lastParseError)
             ELSE IF line.text.k = "bad"
                  THEN Fallback_scan(rest, <<SyntaxErrorOf("bad")>>)
             ELSE IF line.text.k = "null"
                  THEN Fallback_scan(rest, <<NullResultsTypeError>>)
             ELSE IF line.text.arr
                  THEN [thrown |-> NoError, parseError |-> FALSE,
                        message |-> <<>>, results |-> line.text.results]
             ELSE Fallback_scan(rest, lastParseError)

Fallback_parseResponseText(responseText) == Fallback_scan(responseText, <<>>)

\* `${r.title}` of a missing field
Interpolated(field) == IF field = Null THEN <<"undefined">> ELSE field

Fallback_formatResult(r) ==
    <<"Title: ">> \o Interpolated(r.title) \o <<NL>>
    \o <<"Url: ">> \o Interpolated(r.url) \o <<NL>>
    \o (IF Falsy(r.content) THEN <<>> ELSE <<"Content: ">> \o r.content \o <<NL>>)

Fallback_formatResults(results) ==
    Join([k \in 1..Len(results) |-> Fallback_formatResult(results[k])], <<NL>>)

Fallback_formatOutput(content) ==
    LET truncation == truncateHead(content, DEFAULT_MAX_LINES, DEFAULT_MAX_BYTES) IN
    IF ~truncation.truncated
    THEN [output |-> truncation.content, truncated |-> FALSE, meta |-> NoMeta]
    ELSE [output |-> truncation.content, truncated |-> TRUE,
          meta |-> [outputLines |-> truncation.outputLines,
                    totalLines |-> truncation.totalLines,
                    outputBytes |-> truncation.outputBytes,
                    totalBytes |-> truncation.totalBytes]]

\* the notice execute appends
Fallback_notice(meta, tempFile) ==
    <<NL, NL, "[Output truncated: ", ToString(meta.outputLines), " of ",
      ToString(meta.totalLines), " lines (">>
    \o formatSize(meta.outputBytes) \o <<" of ">> \o formatSize(meta.totalBytes)
    \o <<"). Full output saved to: ">> \o tempFile \o <<"]">>

\* the path its writeTempOutput builds
Fallback_TempPath(n) == <<"pi-tool-output/websearch-fallback-", ToString(n), ".txt">>

Fallback_KeyError ==
    Error(<<"TAVILY_API_KEY environment variable is not set. ",
            "Please set it to use the websearch fallback tool.">>)

NoResultsText == <<"No search results found. Please try a different query.">>

\* Dates: absent, a day "YYYY-MM-DD" given by its number, or (0) a text
\* new Date() makes an Invalid Date of.
DateInputs == { <<>>, <<0>>, <<1>>, <<2>> }
\* `new Date(startDate) > new Date(endDate)`: false when either is NaN
StartAfterEnd(startDate, endDate) ==
    startDate[1] # 0 /\ endDate[1] # 0 /\ startDate[1] > endDate[1]
DateRangeError(startDate, endDate) ==
    Error(<<"Invalid date range: start date (", ToString(startDate[1]),
            ") cannot be after end date (", ToString(endDate[1]), ")">>)

\* Bodies Tavily may answer the fallback tool with.
FallbackBodies ==
    { <<DataText(InnerResults(<<Result(<<"t">>, <<"u">>, Null)>>))>>,
      <<DataBad, DataText(InnerResults(<<Result(<<"t">>, <<"u">>, <<"c">>)>>))>>,
      <<DataText(InnerResults(<<>>))>>,
      <<DataBad, DataDone>>,
      <<OtherLine>>,
      <<DataNull>> }

\* the tools are called one at a time
SlotFree == fb.pc = "idle" /\ \A i \in Invocations : inv[i].pc = "idle"

\* the catch of execute: an AbortError becomes a timeout, the rest is rethrown
Fallback_caught(error) ==
    IF isAbortError(error) THEN Error(<<"Search request timed out">>) ELSE error

\* execute leaves its try with the record f: the finally runs clear()
FallbackLeaves(f) ==
    LET cl == Fallback_clear(FbCtx, fb.removesListener, timers, listeners) IN
    /\ fb' = [f EXCEPT !.cleared = fb.cleared + 1]
    /\ timers' = cl.timers
    /\ listeners' = cl.listeners

\* Variant: the context is made before the parameters are validated.
FallbackExecute_ContextFirst(rawQuery, startDate, endDate, hasSignal) ==
    /\ SlotFree
    /\ LET query == IF rawQuery = Null THEN Null ELSE Trim(rawQuery)
           cs == Fallback_combineSignals(FbCtx, hasSignal, Fallback_REQUEST_TIMEOUT_MS,
                                         timers, listeners)
           failed == IF ~tavilyKey THEN Fallback_KeyError
                     ELSE IF Falsy(query) THEN Error(<<"Search query cannot be empty">>)
                     ELSE IF startDate # <<>> /\ endDate # <<>>
                             /\ StartAfterEnd(startDate, endDate)
                     THEN DateRangeError(startDate, endDate)
                     ELSE NoError
       IN  /\ fb' = [NoFallback EXCEPT
                       !.pc = IF failed # NoError THEN "failed" ELSE "fetch",
                       !.error = failed,
                       !.hasSignal = hasSignal,
                       !.aborted = cs.aborted,
                       !.removesListener = cs.removesListener,
                       !.cause = IF cs.aborted THEN "sync" ELSE "none",
                       !.query = IF failed # NoError THEN Null ELSE query,
                       !.requested = failed = NoError]
           /\ timers' = cs.timers
           /\ listeners' = cs.listeners
    /\ UNCHANGED <<inv, att, callerAborted, tavilyKey, files, call>>

\* Variant: the request is sent whether or not the key is set (the header
\* is then "Bearer ").
FallbackExecute_NoKeyCheck(rawQuery, startDate, endDate, hasSignal) ==
    /\ SlotFree
    /\ LET query == IF rawQuery = Null THEN Null ELSE Trim(rawQuery) IN
       IF Falsy(query)
       THEN /\ fb' = [NoFallback EXCEPT !.pc = "failed",
                        !.error = Error(<<"Search query cannot be empty">>)]
            /\ UNCHANGED <<timers, listeners>>
       ELSE IF startDate # <<>> /\ endDate # <<>> /\ StartAfterEnd(startDate, endDate)
       THEN /\ fb' = [NoFallback EXCEPT !.pc = "failed",
                        !.error = DateRangeError(startDate, endDate)]
            /\ UNCHANGED <<timers, listeners>>
       ELSE LET cs == Fallback_combineSignals(FbCtx, hasSignal, Fallback_REQUEST_TIMEOUT_MS,
                                              timers, listeners) IN
            /\ fb' = [NoFallback EXCEPT
                        !.pc = "fetch",
                        !.hasSignal = hasSignal,
                        !.aborted = cs.aborted,
                        !.removesListener = cs.removesListener,
                        !.cause = IF cs.aborted THEN "sync" ELSE "none",
                        !.query = query,
                        !.requested = TRUE]
            /\ timers' = cs.timers
            /\ listeners' = cs.listeners
    /\ UNCHANGED <<inv, att, callerAborted, tavilyKey, files, call>>

\* execute is called: the three validations, combineSignals, fetch
FallbackExecute(rawQuery, startDate, endDate, hasSignal) ==
    /\ SlotFree
    /\ LET query == IF rawQuery = Null THEN Null ELSE Trim(rawQuery) IN
       IF ~tavilyKey
       THEN /\ fb' = [NoFallback EXCEPT !.pc = "failed", !.error = Fallback_KeyError]
            /\ UNCHANGED <<timers, listeners>>
       ELSE IF Falsy(query)
       THEN /\ fb' = [NoFallback EXCEPT !.pc = "failed",
                        !.error = Error(<<"Search query cannot be empty">>)]
            /\ UNCHANGED <<timers, listeners>>
       ELSE IF startDate # <<>> /\ endDate # <<>> /\ StartAfterEnd(startDate, endDate)
       THEN /\ fb' = [NoFallback EXCEPT !.pc = "failed",
                        !.error = DateRangeError(startDate, endDate)]
            /\ UNCHANGED <<timers, listeners>>
       ELSE LET cs == Fallback_combineSignals(FbCtx, hasSignal, Fallback_REQUEST_TIMEOUT_MS,
                                              timers, listeners) IN
            /\ fb' = [NoFallback EXCEPT
                        !.pc = "fetch",
                        !.hasSignal = hasSignal,
                        !.aborted = cs.aborted,
                        !.removesListener = cs.removesListener,
                        !.cause = IF cs.aborted THEN "sync" ELSE "none",
                        !.query = query,
                        !.requested = TRUE]
            /\ timers' = cs.timers
            /\ listeners' = cs.listeners
    /\ UNCHANGED <<inv, att, callerAborted, tavilyKey, files, call>>

\* fetch resolves with the response's status line and headers
FallbackFetchResolved(status) ==
    /\ fb.pc = "fetch"
    /\ ~fb.aborted
    /\ fb' = [fb EXCEPT !.pc = "body", !.status = status]
    /\ UNCHANGED <<inv, att, timers, listeners, callerAborted, tavilyKey, files, call>>

\* response.text() resolves: execute up to its return, its throw, or
\* `await writeTempOutput(content)`
FallbackBodyRead ==
    /\ fb.pc = "body"
    /\ ~fb.aborted
    /\ \E errorText \in ErrorBodies, responseText \in FallbackBodies :
         IF ~ResponseOk(fb.status)
         THEN FallbackLeaves([fb EXCEPT
                 !.pc = "failed",
                 !.error = Error(<<"Search error (", ToString(fb.status), "): ">>
                                 \o errorText)])
         ELSE LET results == Fallback_parseResponseText(responseText) IN
              IF results.thrown # NoError
              THEN FallbackLeaves([fb EXCEPT !.pc = "failed",
                                             !.error = Fallback_caught(results.thrown)])
              ELSE IF results.parseError
              THEN FallbackLeaves([fb EXCEPT !.pc = "failed",
                                             !.error = Error(results.message)])
              ELSE IF Len(results.results) = 0
              THEN FallbackLeaves([fb EXCEPT !.pc = "done", !.output = NoResultsText])
              ELSE LET content == Fallback_formatResults(results.results)
                       formatted == Fallback_formatOutput(content)
                   IN  IF formatted.truncated
                       THEN /\ fb' = [fb EXCEPT !.pc = "write",
                                                !.content = content,
                                                !.output = formatted.output]
                            /\ UNCHANGED <<timers, listeners>>
                       ELSE FallbackLeaves([fb EXCEPT !.pc = "done",
                                                      !.content = content,
                                                      !.output = formatted.output])
    /\ UNCHANGED <<inv, att, callerAborted, tavilyKey, files, call>>

\* the connection fails while fetch or response.text() is pending
FallbackNetworkFailed ==
    /\ fb.pc \in {"fetch", "body"}
    /\ ~fb.aborted
    /\ FallbackLeaves([fb EXCEPT !.pc = "failed",
                                 !.error = Fallback_caught(NetworkError)])
    /\ UNCHANGED <<inv, att, callerAborted, tavilyKey, files, call>>

\* fetch / response.text() reject because combinedSignal is aborted
FallbackAborted ==
    /\ fb.pc \in {"fetch", "body"}
    /\ fb.aborted
    /\ FallbackLeaves([fb EXCEPT !.pc = "failed",
                                 !.error = Fallback_caught(AbortError)])
    /\ UNCHANGED <<inv, att, callerAborted, tavilyKey, files, call>>

\* writeTempOutput succeeded: the notice is appended, execute returns
FallbackWriteDone ==
    /\ fb.pc = "write"
    /\ Len(files) < MaxFiles
    /\ LET path == Fallback_TempPath(Len(files) + 1)
           formatted == Fallback_formatOutput(fb.content)
           file == [path |-> path, content |-> fb.content]
       IN  /\ files' = Append(files, file)
           /\ FallbackLeaves([fb EXCEPT
                 !.pc = "done",
                 !.written = Append(fb.written, file),
                 !.output = formatted.output \o Fallback_notice(formatted.meta, path)])
    /\ UNCHANGED <<inv, att, callerAborted, tavilyKey, call>>

\* fs.mkdir or fs.writeFile rejected
FallbackWriteFailed ==
    /\ fb.pc = "write"
    /\ FallbackLeaves([fb EXCEPT !.pc = "failed", !.output = Null,
                                 !.error = Fallback_caught(WriteError)])
    /\ UNCHANGED <<inv, att, callerAborted, tavilyKey, files, call>>

\* the timeout callback of the fallback's context runs
FallbackTimerFired ==
    /\ FbCtx \in DOMAIN timers
    /\ timers[FbCtx] = 0
    /\ timers' = ClearTimeout(timers, FbCtx)
    /\ fb' = [fb EXCEPT !.aborted = TRUE,
                        !.cause = IF fb.aborted THEN fb.cause ELSE "timer"]
    /\ UNCHANGED <<inv, att, listeners, callerAborted, tavilyKey, files, call>>

\* the caller has received the result or the error
FallbackReturn ==
    /\ fb.pc \in {"done", "failed"}
    /\ fb' = NoFallback
    /\ UNCHANGED <<inv, att, timers, listeners, callerAborted, tavilyKey, files, call>>

NextFallback ==
    \/ \E q \in Queries, sd \in DateInputs, ed \in DateInputs, s \in BOOLEAN :
         FallbackExecute(q, sd, ed, s)
    \/ \E st \in Statuses : FallbackFetchResolved(st)
    \/ FallbackBodyRead
    \/ FallbackNetworkFailed
    \/ FallbackAborted
    \/ FallbackWriteDone
    \/ FallbackWriteFailed
    \/ FallbackTimerFired
    \/ FallbackReturn

\* both tools, the network, the timers and the caller
NextTools == Next \/ NextFallback

SpecTools == Init /\ [][NextTools]_vars

----------------------------------------------------------------------------
\* the errors normalizeParams throws
InputErrors ==
    { Error(<<"Search query cannot be empty">>),
      Error(<<"maxResults must be between ", ToString(MIN_MAX_RESULTS),
              " and ", ToString(MAX_MAX_RESULTS)>>) }

\* a query with nothing in it but white space
EmptyQuery(q) == q = Null \/ \A k \in 1..Len(q) : IsSpace(q[k])

C20_Step ==
    /\ \A i \in Invocations, q \in Queries, m \in MaxResultsInputs, s \in BOOLEAN :
          (/\ inv[i].pc = "idle" /\ inv'[i].pc # "idle"
           /\ EmptyQuery(q) \/ (m # <<>> /\ (m[1] < 5 \/ m[1] > 20))
           /\ Execute(i, q, m, s))
          => /\ inv'[i].pc = "failed"
             /\ inv'[i].error \in InputErrors
             /\ \A p \in Providers :
                   /\ att'[<<i, p>>].phase = "none"
                   /\ <<i, p>> \notin DOMAIN timers'
                   /\ <<i, p>> \notin listeners'
             /\ timers' = timers
    /\ \A q \in Queries, sd \in DateInputs, ed \in DateInputs, s \in BOOLEAN :
          (/\ fb.pc = "idle" /\ fb'.pc # "idle"
           /\ \/ EmptyQuery(q)
              \/ (sd # <<>> /\ ed # <<>> /\ sd[1] > 0 /\ ed[1] > 0 /\ sd[1] > ed[1])
           /\ FallbackExecute(q, sd, ed, s))
          => /\ fb'.pc = "failed"
             /\ fb'.error # NoError
             /\ ~fb'.requested
             /\ FbCtx \notin DOMAIN timers'
             /\ FbCtx \notin listeners'
             /\ timers' = timers
    /\ \A i \in Invocations :
          (inv[i].pc = "failed" /\ inv[i].error \in InputErrors)
          => /\ inv'[i].pc \in {"failed", "idle"}
             /\ \A p \in Providers : att'[<<i, p>>].phase = "none"
    /\ (fb.pc = "failed" /\ ~fb.requested)
          => fb'.pc \in {"failed", "idle"} /\ ~fb'.requested

\* C20: a call with malformed input fails at once, before any provider is
\* contacted: websearch with a query that is empty once trimmed or with a
\* maxResults outside 5..20 begins no attempt and sets no timer;
\* websearch_fallback with an empty query, or with a start date after its
\* end date, fails without a context, a timer or a request.  Nothing is
\* tried again: the call stays failed until the caller has its error.
C20_MalformedInputRejectedFirst == [][C20_Step]_vars

\* websearch_fallback refused a start date after the end date
C20_Witness ==
    /\ fb.pc = "failed"
    /\ fb.error = DateRangeError(<<2>>, <<1>>)
    /\ ~fb.requested
    /\ FbCtx \notin DOMAIN timers

-----------------------------------------------------------------------------
(* The Tavily credential *)

\* C21, as stated: every websearch invocation made while TAVILY_API_KEY is
\* unset ends with the configuration error propagated to the caller,
\* whatever Exa does.
C21_UnsetKeyAlwaysFatal ==
    \A i \in Invocations :
        (/\ ~tavilyKey
         /\ inv[i].pc \in {"write", "done", "failed"}
         /\ inv[i].error \notin InputErrors)
        => /\ inv[i].pc = "failed"
           /\ Contains(inv[i].error.message, KeyError.message)

\* C21, amended: while TAVILY_API_KEY is unset the key is looked at only when
\* the Tavily attempt is made, that is after Exa gave no content. That attempt
\* fails at once with the configuration error, without a request, and the
\* invocation then throws the aggregated error whose Tavily part is the
\* configuration message; an invocation whose Exa attempt gave content
\* returns it and never meets the configuration error.
C21_UnsetKeyFailsTavilyAttempt ==
    \A i \in Invocations :
        LET decided == /\ inv[i].pc \in {"write", "done", "failed"}
                       /\ inv[i].error \notin InputErrors
        IN
        ~tavilyKey
        => /\ Begun(<<i, "tavily">>)
              => /\ Tavily(i).phase \in {"settled", "closed"}
                 /\ ~Tavily(i).ok
                 /\ Tavily(i).error = KeyError
                 /\ Tavily(i).status = 0
                 /\ Closed(<<i, "tavily">>) => Tavily(i).thrown = KeyError
           /\ (decided /\ Begun(<<i, "tavily">>))
              => /\ inv[i].pc = "failed"
                 /\ inv[i].error = BothFailed(inv[i].exaError, KeyError)
                 /\ Contains(inv[i].error.message, KeyError.message)
           /\ (decided /\ ~Begun(<<i, "tavily">>))
              => /\ Exa(i).ok
                 /\ inv[i].formatted = Exa(i).value
                 /\ inv[i].error \in {NoError, WriteError}

C21_Witness ==
    \E i \in Invocations :
        /\ ~tavilyKey
        /\ inv[i].pc = "failed"
        /\ Closed(<<i, "tavily">>)
        /\ inv[i].error = BothFailed(inv[i].exaError, KeyError)

\* C22: when TAVILY_API_KEY is unset, searchTavily and the websearch_fallback
\* tool throw their "not set" error before fetch is called, so no request
\* leaves without a credential: a Tavily attempt made then is settled with
\* the error and never waits for a response, and a websearch_fallback call
\* made then has failed with the error, with no request, no timer and no
\* listener.
C22_NoRequestWithoutKey ==
    /\ \A i \in Invocations :
         /\ (\/ Tavily(i).sentAuth
             \/ Tavily(i).phase \in {"fetch", "body"}
             \/ Tavily(i).status # 0) => tavilyKey
         /\ (~tavilyKey /\ Begun(<<i, "tavily">>))
            => /\ Tavily(i).phase \in {"settled", "closed"}
               /\ Tavily(i).error = KeyError
    /\ fb.requested => tavilyKey
    /\ (~tavilyKey /\ fb.pc # "idle")
       => /\ fb.pc = "failed"
          /\ fb.error = Fallback_KeyError
          /\ fb.status = 0
          /\ FbCtx \notin DOMAIN timers
          /\ FbCtx \notin listeners

C22_Witness ==
    /\ ~tavilyKey
    /\ fb.pc = "failed"
    /\ fb.error = Fallback_KeyError
    /\ ~fb.requested

-----------------------------------------------------------------------------
(* Failures of one attempt *)

\* C23: an attempt whose response has a non-success status never fulfils and
\* never decodes the body: once its body is read the adapter has failed with
\* "<provider> search error (<status>): <body>", a message that holds the
\* status code and the text of the error body (unless the request was
\* aborted or the connection failed while the body was read).
C23_RefusedFailsWithStatusAndBody ==
    \A c \in CtxIds :
        (/\ att[c].status # 0 /\ ~ResponseOk(att[c].status)
         /\ att[c].phase \in {"settled", "closed"})
        => /\ ~att[c].ok
           /\ att[c].value = Null
           /\ \/ att[c].error \in {AbortError, NetworkError}
              \/ \E errorText \in ErrorBodies :
                   /\ att[c].error =
                        Error(<<(IF c[2] = "exa" THEN "Exa" ELSE "Tavily")
                                   \o " search error (",
                                ToString(att[c].status), "): ">> \o errorText)
                   /\ Contains(att[c].error.message, <<ToString(att[c].status)>>)
                   /\ Contains(att[c].error.message, errorText)

C23_Witness ==
    \E c \in CtxIds, errorText \in ErrorBodies :
        /\ att[c].status # 0 /\ ~ResponseOk(att[c].status)
        /\ Closed(c)
        /\ c[2] = "tavily"
        /\ att[c].thrown =
             Error(<<"Tavily search error (", ToString(att[c].status), "): ">> \o errorText)

\* C24: a closed attempt is reported as "Search request timed out" exactly
\* when its adapter rejected with the abort of the attempt's own token, which
\* the timer or the caller's signal had cancelled; an attempt that failed in
\* any other way (status, connection, empty content, decoder, missing key)
\* throws its own error unchanged, which is never the timed-out message.
C24_TimedOutIffTokenCancelled ==
    \A c \in CtxIds :
        (Closed(c) /\ ~att[c].ok)
        => /\ att[c].thrown # NoError
           /\ (att[c].error = AbortError)
              => /\ att[c].thrown = Error(TimedOut)
                 /\ att[c].aborted
                 /\ att[c].cause \in {"timer", "parent", "sync"}
           /\ (att[c].error # AbortError)
              => /\ att[c].thrown = att[c].error
                 /\ att[c].thrown.message # TimedOut
           /\ (att[c].thrown = Error(TimedOut)) <=> (att[c].error = AbortError)

C24_Witness ==
    \E i \in Invocations :
        /\ Closed(<<i, "exa">>) /\ Exa(i).status = 500
        /\ Exa(i).thrown = Exa(i).error
        /\ Exa(i).error.name = "Error"
        /\ Closed(<<i, "tavily">>)
        /\ Tavily(i).cause = "timer"
        /\ Tavily(i).error = AbortError
        /\ Tavily(i).thrown = Error(TimedOut)

-----------------------------------------------------------------------------
(* The formatters and the tools' own decoders, applied on their own *)

\* Records of a result list handed to formatResults: one-line fields, each
\* absent, empty or set.
MaxRecords == 2

Records ==
    { Result(title, url, content) :
        title \in {Null, <<"t">>}, url \in {Null, <<"u">>},
        content \in {Null, <<>>, <<"c">>} }

\* Lines of a body handed to parseResponseText of the Exa websearch tool and
\* of the websearch_fallback tool.
StandaloneLines ==
    { OtherLine, DataEmpty, DataDone, DataBad, DataNull, DataNoText,
      DataText(<<>>), DataText(<<" ">>), DataText(<<"a">>) }

Fallback_Lines ==
    { OtherLine, DataEmpty, DataBad, DataNull, DataNoText,
      DataText(InnerBad), DataText(InnerNull), DataText(InnerNoResults),
      DataText(InnerResults(<<>>)), DataText(InnerResults(<<R1>>)) }

TextInputs ==
    { [fn |-> "input", tool |-> "format", results |-> rs, exaBody |-> <<>>,
       tavilyBody |-> <<>>, out |-> <<>>, thrown |-> NoError]
        : rs \in SeqsUpTo(Records, MaxRecords) }
    \cup
    { [fn |-> "input", tool |-> "websearch", results |-> <<>>, exaBody |-> b,
       tavilyBody |-> <<>>, out |-> <<>>, thrown |-> NoError]
        : b \in SeqsUpTo(StandaloneLines, MaxBodyLines) }
    \cup
    { [fn |-> "input", tool |-> "websearch_fallback", results |-> <<>>, exaBody |-> <<>>,
       tavilyBody |-> b, out |-> <<>>, thrown |-> NoError]
        : b \in SeqsUpTo(Fallback_Lines, MaxBodyLines) }

\* the SyntaxError JSON.parse throws on a payload of that kind
SyntaxError(kind) == [name |-> "SyntaxError", message |-> SyntaxErrorOf(kind)]

\* parseResponseText of the Exa websearch tool: JSON.parse sits in no try
RECURSIVE Standalone_parseResponseText(_)
Standalone_parseResponseText(responseText) ==
    IF responseText = <<>> THEN Returned(Null)
    ELSE LET line == Head(responseText)
             rest == Tail(responseText)
         IN  IF ~line.data THEN Standalone_parseResponseText(rest)
             ELSE IF line.k \in {"empty", "done", "bad"} THEN Thrown(SyntaxError(line.k))
             ELSE IF line.k = "null" THEN Thrown(NullTypeError)
             ELSE IF ~line.has \/ Falsy(line.text) THEN Standalone_parseResponseText(rest)
             ELSE Returned(line.text)

InitText ==
    /\ inv = [i \in Invocations |-> NoInvocation]
    /\ att = [c \in CtxIds |-> NoAttempt]
    /\ timers = << >>
    /\ listeners = {}
    /\ callerAborted = FALSE
    /\ tavilyKey = TRUE
    /\ files = <<>>
    /\ fb = NoFallback
    /\ call \in TextInputs

\* formatResults(results) of the Tavily adapter
FormatRecords ==
    /\ call.fn = "input" /\ call.tool = "format"
    /\ call' = [call EXCEPT !.fn = "formatResults", !.out = formatResults(call.results)]
    /\ UNCHANGED <<inv, att, timers, listeners, callerAborted, tavilyKey, fb, files>>

\* formatResults(results) of the websearch_fallback tool
FallbackFormat ==
    /\ call.fn = "input" /\ call.tool = "format"
    /\ call' = [call EXCEPT !.fn = "Fallback_formatResults",
                            !.out = Fallback_formatResults(call.results)]
    /\ UNCHANGED <<inv, att, timers, listeners, callerAborted, tavilyKey, fb, files>>

\* execute of the Exa websearch tool from `await response.text()` of a 200
\* response to the decoder's outcome: thrown is what its catch rethrows
StandaloneBodyRead ==
    /\ call.fn = "input" /\ call.tool = "websearch"
    /\ LET content == Standalone_parseResponseText(call.exaBody) IN
       call' = [call EXCEPT
                  !.fn = "Standalone_execute",
                  !.out = content,
                  !.thrown = IF isAbortError(content.thrown)
                             THEN Error(<<"Search request timed out">>)
                             ELSE content.thrown]
    /\ UNCHANGED <<inv, att, timers, listeners, callerAborted, tavilyKey, fb, files>>

\* execute of the websearch_fallback tool over the same stretch: a
\* ParseError object is thrown as an Error with its message
FallbackDecode ==
    /\ call.fn = "input" /\ call.tool = "websearch_fallback"
    /\ LET results == Fallback_parseResponseText(call.tavilyBody) IN
       call' = [call EXCEPT
                  !.fn = "Fallback_execute",
                  !.out = results,
                  !.thrown = IF results.thrown # NoError THEN Fallback_caught(results.thrown)
                             ELSE IF results.parseError THEN Error(results.message)
                             ELSE NoError]
    /\ UNCHANGED <<inv, att, timers, listeners, callerAborted, tavilyKey, fb, files>>

NextText == FormatRecords \/ FallbackFormat \/ StandaloneBodyRead \/ FallbackDecode

SpecText == InitText /\ [][NextText]_vars

\* The paragraphs of a text given as its lines: the runs of lines between
\* empty lines (two empty lines in a row hold an empty paragraph).
RECURSIVE Paragraphs(_)
Paragraphs(lines) ==
    IF \A k \in 1..Len(lines) : lines[k] # <<>> THEN <<lines>>
    ELSE LET k == CHOOSE j \in 1..Len(lines) :
                    lines[j] = <<>> /\ \A m \in 1..(j - 1) : lines[m] # <<>>
         IN <<SubSeq(lines, 1, k - 1)>> \o Paragraphs(SubSeq(lines, k + 1, Len(lines)))

C28_MalformedLineSkipped ==
    call.fn = "Standalone_execute" =>
        \A k \in 1..Len(call.exaBody) :
            (/\ call.exaBody[k].data /\ call.exaBody[k].k = "json"
             /\ call.exaBody[k].has /\ ~Falsy(call.exaBody[k].text)
             /\ \A j \in 1..(k - 1) : call.exaBody[j] = DataBad)
            => /\ call.thrown = NoError
               /\ call.out = Returned(call.exaBody[k].text)

\* What does hold of that decoder: lines that are no data lines, and data
\* lines without a text, are passed over; the first data line with a text
\* gives the result.
C28_NonDataLinesSkipped ==
    call.fn = "Standalone_execute" =>
        \A k \in 1..Len(call.exaBody) :
            (/\ call.exaBody[k].data /\ call.exaBody[k].k = "json"
             /\ call.exaBody[k].has /\ ~Falsy(call.exaBody[k].text)
             /\ \A j \in 1..(k - 1) :
                  call.exaBody[j] \in {OtherLine, DataNoText, DataText(<<>>)})
            => /\ call.thrown = NoError
               /\ call.out = Returned(call.exaBody[k].text)

\* what C29 says of the websearch_fallback call whose body was decoded
C29_Outcome ==
    LET body == call.tavilyBody
        \* the line's payload, or its nested text, fails in the decoder's try
        ParseFails(line) ==
            line.data /\ (line.k \in {"empty", "done", "bad"}
                          \/ (line.k = "json" /\ line.has
                              /\ line.text.k \in {"bad", "null"}))
        \* the message of the error caught for such a line
        ParseFailure(line) ==
            IF line.k = "json"
            THEN (IF line.text.k = "null" THEN NullResultsTypeError
                  ELSE SyntaxErrorOf("bad"))
            ELSE SyntaxErrorOf(line.k)
        failures == { k \in 1..Len(body) : ParseFails(body[k]) }
        last == CHOOSE k \in failures : \A j \in failures : j <= k
    IN  /\ (\A k \in 1..Len(body) : ~TavilyUsable(body[k]))
           => call.thrown =
                Error(IF failures # {}
                      THEN <<"Failed to parse search response: ">>
                           \o ParseFailure(body[last])
                      ELSE <<"No valid search results found in response">>)
        /\ \A k \in 1..Len(body) :
              (TavilyUsable(body[k]) /\ \A j \in 1..(k - 1) : ~TavilyUsable(body[j]))
              => /\ call.thrown = NoError
                 /\ call.out.results = body[k].text.results

\* C29: in the websearch_fallback tool, a body none of whose data lines
\* yields a results array ends the call with an error that tells a parse
\* failure from no results: "Failed to parse search response: <last parse
\* error>" if a parse failed during the scan, "No valid search results found
\* in response" otherwise; a line that yields a results array is returned
\* even after lines that failed to parse.
C29_ErrorTellsParseFailure ==
    call.fn = "Fallback_execute" => C29_Outcome

\* What does hold: the same, for the bodies in which no "data: null" line
\* comes before the line that yields the results.
C29_HoldsWithoutNullLine ==
    (/\ call.fn = "Fallback_execute"
     /\ \A k \in 1..Len(call.tavilyBody) :
           call.tavilyBody[k] = DataNull
           => \E j \in 1..(k - 1) : TavilyUsable(call.tavilyBody[j]))
    => C29_Outcome

-----------------------------------------------------------------------------
(* webfetch (part_003) *)

\* the cancellation context of the webfetch call
WfCtx == <<1, "webfetch">>

\* The webfetch call, kept in `call`.  The response's body is given by its
\* size in bytes and, when it is read, by the text it decodes to.
NoWebfetch ==
    [fn |-> "webfetch",
     pc |-> "idle",             \* idle, fetch, body, write, done, failed
     hasSignal |-> FALSE,
     aborted |-> FALSE,         \* controller.signal.aborted
     cause |-> "none",          \* history: what aborted the controller first
     status |-> 0,
     declared |-> <<>>,         \* the content-length header, if it is a number
     bodySize |-> 0,            \* bytes of the body the server sends
     read |-> FALSE,            \* history: arrayBuffer() resolved
     raw |-> <<>>,              \* the decoded body
     result |-> "none",         \* none, text, image
     output |-> <<>>,           \* finalText
     error |-> NoError,
     cleaned |-> 0,             \* history: calls of cleanup()
     abortedAfterCleanup |-> FALSE]

\* createAbortResources(signal, timeoutMs) on the timer table T and the
\* caller signal's listener set L
createAbortResources(hasSignal, timeoutMs, T, L) ==
    [aborted |-> hasSignal /\ callerAborted,
     timers |-> SetTimeout(T, WfCtx, timeoutMs),
     listeners |-> IF hasSignal /\ ~callerAborted THEN L \cup {WfCtx} ELSE L]

\* the cleanup closure
cleanup(T, L) == [timers |-> ClearTimeout(T, WfCtx), listeners |-> L \ {WfCtx}]

TooLarge == Error(<<"Response too large (exceeds 5MB limit)">>)

InitFetch ==
    /\ inv = [i \in Invocations |-> NoInvocation]
    /\ att = [c \in CtxIds |-> NoAttempt]
    /\ timers = << >>
    /\ listeners = {}
    /\ callerAborted = FALSE
    /\ tavilyKey \in BOOLEAN
    /\ files = <<>>
    /\ fb = NoFallback
    /\ call = NoWebfetch

\* execute is called: the url check, createAbortResources, fetch
WebfetchExecute(httpUrl, timeout, hasSignal) ==
    /\ call.pc = "idle"
    /\ IF ~httpUrl
       THEN /\ call' = [call EXCEPT
                          !.pc = "failed",
                          !.error = Error(<<"URL must start with http:// or https://">>)]
            /\ UNCHANGED <<timers, listeners>>
       ELSE LET seconds == IF timeout = <<>> THEN DEFAULT_TIMEOUT_MS \div 1000
                           ELSE timeout[1]
                timeoutMs == IF seconds * 1000 < MAX_TIMEOUT_MS THEN seconds * 1000
                             ELSE MAX_TIMEOUT_MS
                r == createAbortResources(hasSignal, timeoutMs, timers, listeners)
            IN  /\ call' = [call EXCEPT !.pc = "fetch", !.hasSignal = hasSignal,
                                        !.aborted = r.aborted,
                                        !.cause = IF r.aborted THEN "sync" ELSE "none"]
                /\ timers' = r.timers
                /\ listeners' = r.listeners
    /\ UNCHANGED <<inv, att, callerAborted, tavilyKey, files, fb>>

\* Variant: cleanup() is left for the end of execute.
WebfetchResolved_KeepsScope(status, declared, bodySize) ==
    /\ call.pc = "fetch"
    /\ ~call.aborted
    /\ LET c1 == [call EXCEPT !.status = status, !.declared = declared,
                              !.bodySize = bodySize]
       IN  call' = IF ~ResponseOk(status)
                   THEN [c1 EXCEPT
                           !.pc = "failed",
                           !.error = Error(<<"Request failed with status code: ",
                                             ToString(status)>>)]
                   ELSE IF declared # <<>> /\ declared[1] > MAX_RESPONSE_SIZE
                   THEN [c1 EXCEPT !.pc = "failed", !.error = TooLarge]
                   ELSE [c1 EXCEPT !.pc = "body"]
    /\ UNCHANGED <<inv, att, timers, listeners, callerAborted, tavilyKey, files, fb>>

\* fetch resolves with the status line and the headers of a response whose
\* body has bodySize bytes: cleanup(), the status check, the content-length
\* check
WebfetchResolved(status, declared, bodySize) ==
    /\ call.pc = "fetch"
    /\ ~call.aborted
    /\ LET cl == cleanup(timers, listeners)
           c1 == [call EXCEPT !.status = status, !.declared = declared,
                              !.bodySize = bodySize, !.cleaned = call.cleaned + 1]
       IN  /\ timers' = cl.timers
           /\ listeners' = cl.listeners
           /\ call' = IF ~ResponseOk(status)
                      THEN [c1 EXCEPT
                              !.pc = "failed",
                              !.error = Error(<<"Request failed with status code: ",
                                                ToString(status)>>)]
                      ELSE IF declared # <<>> /\ declared[1] > MAX_RESPONSE_SIZE
                      THEN [c1 EXCEPT !.pc = "failed", !.error = TooLarge]
                      ELSE [c1 EXCEPT !.pc = "body"]
    /\ UNCHANGED <<inv, att, callerAborted, tavilyKey, files, fb>>

\* fetch rejects, with the abort of the controller or a connection failure:
\* cleanup() in the finally, the error leaves execute as it is
WebfetchRejected ==
    /\ call.pc = "fetch"
    /\ LET cl == cleanup(timers, listeners) IN
       /\ timers' = cl.timers
       /\ listeners' = cl.listeners
    /\ call' = [call EXCEPT !.pc = "failed",
                            !.error = IF call.aborted THEN AbortError ELSE NetworkError,
                            !.cleaned = call.cleaned + 1]
    /\ UNCHANGED <<inv, att, callerAborted, tavilyKey, files, fb>>

\* Variant: the size of the body that was read is not looked at.
WebfetchBodyRead_TrustsHeader(image, raw) ==
    /\ call.pc = "body"
    /\ LET c1 == [call EXCEPT !.read = TRUE]
           truncation == truncateHead(raw, DEFAULT_MAX_LINES, DEFAULT_MAX_BYTES)
       IN  call' = IF image
                   THEN [c1 EXCEPT !.pc = "done", !.result = "image",
                                   !.output = <<"Fetched image [", "image/png", "] from ",
                                                "url">>]
                   ELSE IF truncation.truncated
                   THEN [c1 EXCEPT !.pc = "write", !.raw = raw,
                                   !.output = truncation.content]
                   ELSE [c1 EXCEPT !.pc = "done", !.raw = raw, !.result = "text",
                                   !.output = truncation.content]
    /\ UNCHANGED <<inv, att, timers, listeners, callerAborted, tavilyKey, files, fb>>

\* response.arrayBuffer() resolves: the size check, then the image result, or
\* the text (of a content type normalizeOutput leaves as it is) up to its
\* return or to writeFile
WebfetchBodyRead(image, raw) ==
    /\ call.pc = "body"
    /\ LET c1 == [call EXCEPT !.read = TRUE]
           truncation == truncateHead(raw, DEFAULT_MAX_LINES, DEFAULT_MAX_BYTES)
       IN  call' = IF call.bodySize > MAX_RESPONSE_SIZE
                   THEN [c1 EXCEPT !.pc = "failed", !.error = TooLarge]
                   ELSE IF image
                   THEN [c1 EXCEPT !.pc = "done", !.result = "image",
                                   !.output = <<"Fetched image [", "image/png", "] from ",
                                                "url">>]
                   ELSE IF truncation.truncated
                   THEN [c1 EXCEPT !.pc = "write", !.raw = raw,
                                   !.output = truncation.content]
                   ELSE [c1 EXCEPT !.pc = "done", !.raw = raw, !.result = "text",
                                   !.output = truncation.content]
    /\ UNCHANGED <<inv, att, timers, listeners, callerAborted, tavilyKey, files, fb>>

\* response.arrayBuffer() rejects: the connection failed
WebfetchBodyFailed ==
    /\ call.pc = "body"
    /\ call' = [call EXCEPT !.pc = "failed", !.error = NetworkError]
    /\ UNCHANGED <<inv, att, timers, listeners, callerAborted, tavilyKey, files, fb>>

\* writeFile(tempFile, output) settles: the notice is appended and execute
\* returns, or the error leaves execute
WebfetchWritten(ok) ==
    /\ call.pc = "write"
    /\ IF ok
       THEN /\ Len(files) < MaxFiles
            /\ LET truncation == truncateHead(call.raw, DEFAULT_MAX_LINES, DEFAULT_MAX_BYTES)
                   tempFile == <<"pi-webfetch-", ToString(Len(files) + 1), ".txt">>
               IN  /\ files' = Append(files, [path |-> tempFile, content |-> call.raw])
                   /\ call' = [call EXCEPT
                         !.pc = "done", !.result = "text",
                         !.output = call.output
                            \o <<NL, NL, "[Output truncated: ",
                                 ToString(truncation.outputLines), " of ",
                                 ToString(truncation.totalLines), " lines", " (">>
                            \o formatSize(truncation.outputBytes) \o <<" of ">>
                            \o formatSize(truncation.totalBytes)
                            \o <<").", " Full output saved to: ">> \o tempFile \o <<"]">>]
       ELSE /\ call' = [call EXCEPT !.pc = "failed", !.error = WriteError]
            /\ UNCHANGED files
    /\ UNCHANGED <<inv, att, timers, listeners, callerAborted, tavilyKey, fb>>

\* the timeout callback of createAbortResources runs
WebfetchTimerFired ==
    /\ WfCtx \in DOMAIN timers
    /\ timers[WfCtx] = 0
    /\ timers' = ClearTimeout(timers, WfCtx)
    /\ call' = [call EXCEPT !.aborted = TRUE,
                            !.cause = IF call.aborted THEN call.cause ELSE "timer",
                            !.abortedAfterCleanup = call.cleaned > 0]
    /\ UNCHANGED <<inv, att, listeners, callerAborted, tavilyKey, files, fb>>

\* the caller aborts its signal: onAbort runs if it is still registered
WebfetchCallerAbort ==
    /\ ~callerAborted
    /\ callerAborted' = TRUE
    /\ call' = IF WfCtx \in listeners
               THEN [call EXCEPT !.aborted = TRUE,
                                 !.cause = IF call.aborted THEN call.cause ELSE "parent",
                                 !.abortedAfterCleanup = call.cleaned > 0]
               ELSE call
    /\ listeners' = {}
    /\ UNCHANGED <<inv, att, timers, tavilyKey, files, fb>>

NextFetch ==
    \/ \E httpUrl \in BOOLEAN, timeout \in {<<>>, <<5>>, <<200>>}, s \in BOOLEAN :
         WebfetchExecute(httpUrl, timeout, s)
    \/ \E st \in Statuses,
          declared \in {<<>>, <<1>>, <<MAX_RESPONSE_SIZE>>, <<MAX_RESPONSE_SIZE + 1>>},
          bodySize \in {1, MAX_RESPONSE_SIZE, MAX_RESPONSE_SIZE + 1} :
         WebfetchResolved(st, declared, bodySize)
    \/ WebfetchRejected
    \/ \E image \in BOOLEAN, raw \in {<<"a">>, <<"a", NL, "a", NL, "a", NL, "a">>} :
         WebfetchBodyRead(image, raw)
    \/ WebfetchBodyFailed
    \/ \E ok \in BOOLEAN : WebfetchWritten(ok)
    \/ WebfetchTimerFired
    \/ WebfetchCallerAbort
    \/ Tick

SpecFetch == InitFetch /\ [][NextFetch]_vars

\* C26, as stated: a response whose body is larger than MAX_RESPONSE_SIZE
\* never gives a result and always ends the call with the "Response too
\* large" error, whether or not a content-length was declared.
C26_OversizeAlwaysTooLarge ==
    (call.pc \in {"write", "done", "failed"} /\ call.bodySize > MAX_RESPONSE_SIZE)
    => /\ call.result = "none"
       /\ call.error = TooLarge

\* C26, amended: webfetch never returns content, text or image, for a
\* response whose body is larger than MAX_RESPONSE_SIZE, declared or not, and
\* never writes it to a file; when such a response has a success status and
\* its body arrives (or its content-length declares the size), the call ends
\* with the "Response too large" error.  A response with another status ends
\* with the status error whatever its size, its body unread.
C26_OversizeNeverReturned ==
    /\ call.result # "none"
       => /\ call.bodySize <= MAX_RESPONSE_SIZE
          /\ call.declared = <<>> \/ call.declared[1] <= MAX_RESPONSE_SIZE
          /\ call.read /\ ResponseOk(call.status)
    /\ (call.pc = "write" \/ files # <<>>) => call.bodySize <= MAX_RESPONSE_SIZE
    /\ (call.bodySize > MAX_RESPONSE_SIZE /\ call.read)
       => call.pc = "failed" /\ call.error = TooLarge
    /\ (/\ ResponseOk(call.status)
        /\ call.declared # <<>> /\ call.declared[1] > MAX_RESPONSE_SIZE)
       => call.pc = "failed" /\ call.error = TooLarge /\ ~call.read
    /\ (call.status # 0 /\ ~ResponseOk(call.status))
       => /\ call.pc = "failed" /\ ~call.read
          /\ call.error = Error(<<"Request failed with status code: ",
                                  ToString(call.status)>>)

C26_Witness ==
    /\ call.pc = "failed"
    /\ call.declared = <<>>
    /\ call.bodySize = MAX_RESPONSE_SIZE + 1
    /\ call.read
    /\ call.error = TooLarge

-----------------------------------------------------------------------------
(* Termination *)

\* What the runtime guarantees: time passes and a due timer's callback runs;
\* a fetch or body read whose signal is aborted rejects; a settled promise
\* resumes the function awaiting it and a file write settles.  Nothing makes
\* a provider answer.  The last conjunct is WF_vars(Resume) written out, for
\* Resume the step by which execute goes on from an await: Resumable is
\* ENABLED <<Resume>>_vars.
Fairness ==
    LET Resumable ==
            \E i \in Invocations :
                \/ inv[i].pc = "exa" /\ Awaited(<<i, "exa">>)
                \/ inv[i].pc = "tavily" /\ Awaited(<<i, "tavily">>)
                \/ inv[i].pc = "write"
        Resume ==
            \E i \in Invocations :
                ExaSettled(i) \/ TavilySettled(i) \/ WriteDone(i) \/ WriteFailed(i)
    IN  /\ WF_vars(Tick)
        /\ WF_vars(\E c \in CtxIds : TimerFired(c) \/ Aborted(c))
        /\ ([]<>~Resumable \/ []<><<Resume>>_vars)

\* one websearch call from its start to its end (no Return: the slot is not
\* used again)
NextLive ==
    \/ \E i \in Invocations, q \in Queries, m \in MaxResultsInputs, s \in BOOLEAN :
         Execute(i, q, m, s)
    \/ \E i \in Invocations : ExaSettled(i)
    \/ \E i \in Invocations : TavilySettled(i)
    \/ \E i \in Invocations : WriteDone(i)
    \/ \E i \in Invocations : WriteFailed(i)
    \/ \E c \in CtxIds, st \in Statuses : FetchResolved(c, st)
    \/ \E c \in CtxIds : BodyRead(c)
    \/ \E c \in CtxIds : NetworkFailed(c)
    \/ \E c \in CtxIds : Aborted(c)
    \/ \E c \in CtxIds : TimerFired(c)
    \/ Tick
    \/ CallerAbort

SpecLive == Init /\ [][NextLive]_vars /\ Fairness

\* C27: under that fairness every websearch invocation that got past
\* normalizeParams ends, with a result or an error, whether or not a
\* provider ever answers; and an attempt that is waiting for its provider
\* always has its timer pending, with at most REQUEST_TIMEOUT_MS to go, or
\* its token already cancelled.
C27_EveryInvocationTerminates ==
    /\ \A i \in Invocations :
         (inv[i].pc \in {"exa", "tavily", "write"}) ~> (inv[i].pc \in {"done", "failed"})
    /\ [](\A c \in CtxIds :
            InFlight(c)
            => \/ att[c].aborted
               \/ c \in DOMAIN timers /\ timers[c] <= REQUEST_TIMEOUT_MS)

\* neither provider answered: both attempts were ended by their timers and
\* the invocation threw the aggregated error
C27_Witness ==
    \E i \in Invocations :
        /\ inv[i].pc = "failed"
        /\ Exa(i).cause = "timer" /\ Exa(i).status = 0 /\ Exa(i).error = AbortError
        /\ Tavily(i).cause = "timer" /\ Tavily(i).status = 0
        /\ Tavily(i).error = AbortError
        /\ inv[i].error = BothFailed(Error(TimedOut), Error(TimedOut))


----------------------------------------------------------------------------
(* The order of the attempts *)

\* C30: in an invocation callProvider runs at most once for Exa and at most
\* once for Tavily, so at most twice in all; Exa's call comes first, and
\* Tavily's is made only once the Exa attempt is over and has not given a
\* non-empty content; an attempt that failed is not made again, and once the
\* Tavily attempt is over no attempt is left waiting.
C30_OnceEachExaThenTavily ==
    \A i \in Invocations :
        /\ Exa(i).calls <= 1
        /\ Tavily(i).calls <= 1
        /\ Exa(i).calls + Tavily(i).calls <= 2
        /\ inv[i].pc # "idle" /\ inv[i].query # Null => Exa(i).calls = 1
        /\ Tavily(i).calls = 1
           => /\ Exa(i).calls = 1
              /\ Exa(i).phase = "closed"
              /\ ~(Exa(i).ok /\ ~Falsy(Exa(i).value))
        /\ Tavily(i).phase = "closed"
           => /\ inv[i].pc \in {"write", "done", "failed"}
              /\ \A c \in CtxIds : c[1] = i => ~InFlight(c)

\* both providers were tried, once each, and both failed
C30_Witness ==
    \E i \in Invocations :
        /\ inv[i].pc = "failed"
        /\ Exa(i).calls = 1 /\ Exa(i).phase = "closed" /\ ~Exa(i).ok
        /\ Tavily(i).calls = 1 /\ Tavily(i).phase = "closed" /\ ~Tavily(i).ok


----------------------------------------------------------------------------
(* An empty result list *)

\* C34: the Tavily decoder ends at the first line whose nested text has an
\* array-valued results, the empty array included: it returns the empty list
\* whatever the later lines carry, and searchTavily then fails with "Tavily
\* search returned empty content".  The Exa decoder passes over a line whose
\* text is empty or white space only and returns the text of the first
\* usable line after it.
C34_EmptyResultsEndTheScan ==
    /\ (call.fn \in {"decode", "adapter"} /\ call.provider = "tavily") =>
          \A k \in 1..Len(call.body) :
              (/\ TavilyUsable(call.body[k])
               /\ call.body[k].text.results = <<>>
               /\ \A j \in 1..(k - 1) :
                     /\ ~TavilyUsable(call.body[j])
                     /\ ~Throwing("tavily", call.body[j]))
              => /\ call.out = Returned(<<>>)
                 /\ call.fn = "adapter"
                    => /\ ~call.res.ok
                       /\ call.res.error = Error(<<"Tavily search returned empty content">>)
    /\ (call.fn \in {"decode", "adapter"} /\ call.provider = "exa") =>
          \A k \in 1..Len(call.body) : \A m \in (k + 1)..Len(call.body) :
              (/\ call.body[k].data /\ call.body[k].k = "json" /\ call.body[k].has
               /\ \A n \in 1..Len(call.body[k].text) : IsSpace(call.body[k].text[n])
               /\ ExaUsable(call.body[m])
               /\ \A j \in 1..(m - 1) :
                     /\ ~ExaUsable(call.body[j])
                     /\ ~Throwing("exa", call.body[j]))
              => /\ call.out = Returned(call.body[m].text)
                 /\ call.fn = "adapter"
                    => call.res = [ok |-> TRUE, value |-> call.body[m].text,
                                   error |-> NoError]

\* searchTavily fails on an empty list although the next line has a record
C34_Witness ==
    /\ call.fn = "adapter" /\ call.provider = "tavily"
    /\ call.body = <<DataText(InnerResults(<<>>)), DataText(InnerResults(<<R1>>))>>
    /\ call.out = Returned(<<>>)
    /\ ~call.res.ok
    /\ call.res.error = Error(<<"Tavily search returned empty content">>)


----------------------------------------------------------------------------
(* Cancellation contexts on one parent signal *)

\* Two calls of execute that were given the same signal, each in its Exa
\* attempt: the contexts callProvider makes for them.
SharedCtxIds == { <<1, "exa">>, <<2, "exa">> }

\* how often clear() is called on one context here
MaxClears == 2

InitShared ==
    /\ inv = [i \in Invocations |-> NoInvocation]
    /\ att = [c \in SharedCtxIds |-> NoAttempt]
    /\ timers = << >>
    /\ listeners = {}
    /\ callerAborted = FALSE
    /\ tavilyKey = TRUE
    /\ files = <<>>
    /\ fb = NoFallback
    /\ call = NoCall

\* callProvider is entered: combineSignals, then the adapter up to its fetch
CallProvider(c, hasSignal) ==
    /\ att[c].phase = "none"
    /\ LET b == callProviderBegin(c, hasSignal, att, timers, listeners) IN
       /\ att' = b.att
       /\ timers' = b.timers
       /\ listeners' = b.listeners
    /\ UNCHANGED <<inv, callerAborted, tavilyKey, fb, call, files>>

\* callProvider's await settles: catch, then finally clear()
ProviderSettled(c) ==
    /\ Awaited(c)
    /\ LET e == callProviderEnd(c, att, timers, listeners) IN
       /\ att' = e.att
       /\ timers' = e.timers
       /\ listeners' = e.listeners
    /\ UNCHANGED <<inv, callerAborted, tavilyKey, fb, call, files>>

\* clear() is called once more on a context already disposed
ClearAgain(c) ==
    /\ att[c].phase = "closed"
    /\ att[c].cleared < MaxClears
    /\ LET cl == clear(c, att[c].removesListener, timers, listeners) IN
       /\ att' = [att EXCEPT ![c].cleared = att[c].cleared + 1]
       /\ timers' = cl.timers
       /\ listeners' = cl.listeners
    /\ UNCHANGED <<inv, callerAborted, tavilyKey, fb, call, files>>

NextShared ==
    \/ \E c \in SharedCtxIds, s \in BOOLEAN : CallProvider(c, s)
    \/ \E c \in SharedCtxIds : ProviderSettled(c)
    \/ \E c \in SharedCtxIds : ClearAgain(c)
    \/ \E c \in SharedCtxIds, st \in Statuses : FetchResolved(c, st)
    \/ \E c \in SharedCtxIds : BodyRead(c)
    \/ \E c \in SharedCtxIds : NetworkFailed(c)
    \/ \E c \in SharedCtxIds : Aborted(c)
    \/ \E c \in SharedCtxIds : TimerFired(c)
    \/ Tick
    \/ CallerAbort

SpecShared == InitShared /\ [][NextShared]_vars

\* C31: once clear() has been called on a context whose controller is not
\* aborted, the controller is not aborted by any later step, be it the
\* caller's abort or the passing of time: the context has no timer and no
\* listener left.  A further call of clear() changes nothing but its count.
C31_DisposedNeverCancelled ==
    [][\A c \in SharedCtxIds :
         /\ (att[c].cleared >= 1 /\ ~att[c].aborted)
            => /\ ~att'[c].aborted
               /\ c \notin DOMAIN timers' /\ c \notin listeners'
               /\ att'[c].cleared >= 1
         /\ (att[c].cleared >= 1 /\ att'[c].cleared = att[c].cleared + 1)
            => /\ timers' = timers
               /\ listeners' = listeners
               /\ att' = [att EXCEPT ![c].cleared = att[c].cleared + 1]
               /\ callerAborted' = callerAborted]_vars

\* a context disposed twice and still not aborted, although the caller's
\* abort has since aborted the other context
C31_Witness ==
    \E c \in SharedCtxIds, d \in SharedCtxIds :
        /\ c # d
        /\ att[c].phase = "closed" /\ att[c].cleared = 2
        /\ att[c].hasSignal /\ att[c].removesListener
        /\ ~att[c].aborted
        /\ callerAborted
        /\ att[d].aborted /\ att[d].cause = "parent"


\* C32: contexts made on the same caller's signal do not touch each other.
\* The clear() of one leaves the other's listener, timer and controller as
\* they were, so a context that was given the signal and is not yet disposed
\* keeps its listener and is aborted by the caller's abort, whatever was
\* disposed before; and the timer callback of one context aborts that
\* context's controller only.
C32_ContextsIndependent ==
    [][\A c \in SharedCtxIds : \A d \in SharedCtxIds \ {c} :
         /\ att'[c].cleared > att[c].cleared
            => /\ (d \in listeners' <=> d \in listeners)
               /\ (d \in DOMAIN timers' <=> d \in DOMAIN timers)
               /\ d \in DOMAIN timers => timers'[d] = timers[d]
               /\ att'[d] = att[d]
         /\ (Live(d) /\ att[d].removesListener /\ ~callerAborted)
            => d \in listeners
         /\ (/\ ~callerAborted /\ callerAborted'
             /\ att[d].phase # "none" /\ att[d].hasSignal /\ att[d].cleared = 0)
            => att'[d].aborted
         /\ (/\ c \in DOMAIN timers /\ timers[c] = 0
             /\ c \notin DOMAIN timers' /\ att'[c].cleared = att[c].cleared)
            => /\ att'[c].aborted
               /\ att'[d] = att[d]
               /\ listeners' = listeners]_vars

\* one context was disposed unaborted; the caller's abort that came later
\* aborted the other one, whose request is still in flight
C32_Witness ==
    \E c \in SharedCtxIds, d \in SharedCtxIds :
        /\ c # d
        /\ att[c].phase = "closed" /\ att[c].removesListener /\ ~att[c].aborted
        /\ att[c].cause = "none"
        /\ InFlight(d) /\ att[d].aborted /\ att[d].cause = "parent"


----------------------------------------------------------------------------
(* The two cancellation scopes side by side *)

\* A webfetch call and the Exa attempt of a websearch call, one tool call at
\* a time, with the network, the timers and the caller.
NextScopes ==
    \/ \E httpUrl \in BOOLEAN, timeout \in {<<>>, <<5>>, <<200>>}, s \in BOOLEAN :
         (\A c \in CtxIds : ~Live(c)) /\ WebfetchExecute(httpUrl, timeout, s)
    \/ \E st \in Statuses,
          declared \in {<<>>, <<MAX_RESPONSE_SIZE + 1>>},
          bodySize \in {1, MAX_RESPONSE_SIZE + 1} :
         WebfetchResolved(st, declared, bodySize)
    \/ WebfetchRejected
    \/ \E image \in BOOLEAN, raw \in {<<"a">>, <<"a", NL, "a", NL, "a", NL, "a">>} :
         WebfetchBodyRead(image, raw)
    \/ WebfetchBodyFailed
    \/ \E ok \in BOOLEAN : WebfetchWritten(ok)
    \/ WebfetchTimerFired
    \/ (\A c \in CtxIds : ~Live(c)) /\ WebfetchCallerAbort
    \/ \E i \in Invocations, s \in BOOLEAN :
         call.pc \notin {"fetch", "body", "write"} /\ CallProvider(<<i, "exa">>, s)
    \/ \E c \in CtxIds, st \in Statuses : FetchResolved(c, st)
    \/ \E c \in CtxIds : BodyRead(c)
    \/ \E c \in CtxIds : NetworkFailed(c)
    \/ \E c \in CtxIds : Aborted(c)
    \/ \E c \in CtxIds : ProviderSettled(c)
    \/ \E c \in CtxIds : TimerFired(c)
    \/ call.pc \notin {"fetch", "body", "write"} /\ CallerAbort
    \/ Tick

SpecScopes == InitFetch /\ [][NextScopes]_vars

\* C33: in webfetch cleanup() has run by the time fetch has resolved or
\* rejected: while the body is read, normalized and written to the overflow
\* file the context has no timer and no listener, and no step, the caller's
\* abort and the passing of time included, aborts the controller.  In
\* websearch the context of an attempt keeps its timer and its listener
\* while the request or the body read is pending, clear() not yet called,
\* and the timer or the caller's abort aborts the controller during the
\* body read as well.
C33_ScopeOfCancellation ==
    [][/\ call.pc = "fetch" => call.cleaned = 0
       /\ (call.pc \in {"body", "write"})
          => /\ call.cleaned = 1
             /\ WfCtx \notin DOMAIN timers
             /\ WfCtx \notin listeners
             /\ call'.aborted = call.aborted
             /\ ~call'.abortedAfterCleanup
       /\ (call.pc = "fetch" /\ call'.pc # "fetch")
          => /\ call'.cleaned = 1
             /\ WfCtx \notin DOMAIN timers'
             /\ WfCtx \notin listeners'
       /\ \A c \in CtxIds :
            /\ InFlight(c)
               => /\ att[c].cleared = 0
                  /\ att[c].aborted \/ c \in DOMAIN timers
                  /\ (att[c].removesListener /\ ~callerAborted) => c \in listeners
            /\ (/\ att[c].phase = "body"
                /\ \/ ~callerAborted /\ callerAborted' /\ att[c].removesListener
                   \/ c \in DOMAIN timers /\ timers[c] = 0 /\ c \notin DOMAIN timers')
               => att'[c].aborted
            /\ (InFlight(c) /\ att'[c].phase \in {"settled", "closed"})
               => /\ att'[c].cleared = 0
                  /\ att'[c].phase = "settled"]_vars

\* the Exa attempt was ended by its timer while the body of a 200 response
\* was read; the webfetch call is writing its overflow file, the caller's
\* abort came after the headers and its controller is not aborted
C33_Witness ==
    \E i \in Invocations :
        /\ Exa(i).phase = "closed"
        /\ Exa(i).status = 200
        /\ Exa(i).cause = "timer"
        /\ Exa(i).error = AbortError
        /\ Exa(i).thrown = Error(<<"Search request timed out">>)
        /\ call.pc = "write"
        /\ call.hasSignal
        /\ callerAborted
        /\ call.cause = "none" /\ ~call.aborted
        /\ call.cleaned = 1

====
